---- MODULE Spec2Model ----
(***************************************************************************)
(* Model of the firmware flash orchestration of particle-cli:              *)
(*   src/src/lib/flash-helper.js  (filter, planner, executor)              *)
(*   src/src/cmd/flash.js         (flash, flashOverUsb, flashLocal)        *)
(*   src/src/cmd/update.js        (updateDevice)                           *)
(* The USB device handle (usb-util), the platform table (lib/platform),    *)
(* the dependency sorter (lib/dependency-walker) and the binary catalog    *)
(* (lib/device-os-version-util) are collaborators whose code is not part   *)
(* of the modelled sources; they are modelled from their contracts.        *)
(***************************************************************************)
EXTENDS Integers, Sequences, FiniteSets, TLC

\* ------------------------------------------------------------------------
\* Bounds
\* ------------------------------------------------------------------------
\* number of binary files the user may pass to `particle flash --local`
MaxFiles == 2
\* length of the module lists the helper functions are applied to
MaxModules == 3
\* number of 'erased' / 'downloaded' events reported while one step is written
MaxChunks == 2

\* ------------------------------------------------------------------------
\* Program constants
\* ------------------------------------------------------------------------
DEVICE_OS_MIN_VERSION_TO_FORMAT_128K_USER == 3103
FLASH_APPLY_DELAY == 3000

\* ------------------------------------------------------------------------
\* Module descriptors (what the module parser yields for a file).
\* A file is named by a string; Binary(f) is its parsed content.
\* ------------------------------------------------------------------------
NoDep == [fn |-> "NONE", index |-> 0]

ModuleFiles ==
  { "boot.bin", "sys1.bin", "app.bin", "appold.bin", "ncp.bin", "radio.bin",
    "asset.txt", "preboot.bin", "badcrc.bin", "foreign.bin" }

\* prefixInfo.moduleFunction
ModuleFunction(f) ==
  CASE f = "boot.bin"    -> "BOOTLOADER"
    [] f = "preboot.bin" -> "BOOTLOADER"
    [] f = "sys1.bin"    -> "SYSTEM_PART"
    [] f = "badcrc.bin"  -> "SYSTEM_PART"
    [] f = "app.bin"     -> "USER_PART"
    [] f = "appold.bin"  -> "USER_PART"
    [] f = "foreign.bin" -> "USER_PART"
    [] f = "badboth.bin" -> "USER_PART"
    [] f = "build/app.bin" -> "USER_PART"
    [] f = "ncp.bin"     -> "NCP_FIRMWARE"
    [] f = "radio.bin"   -> "RADIO_STACK"
    [] f = "asset.txt"   -> "ASSET"
    [] OTHER             -> "NONE"

\* prefixInfo.moduleIndex
ModuleIndex(f) ==
  CASE f = "boot.bin"    -> 0
    [] f = "preboot.bin" -> 2
    [] f = "sys1.bin"    -> 1
    [] f = "badcrc.bin"  -> 1
    [] f = "app.bin"     -> 1
    [] f = "appold.bin"  -> 1
    [] f = "foreign.bin" -> 1
    [] f = "badboth.bin" -> 1
    [] f = "build/app.bin" -> 1
    [] OTHER             -> 0

\* crc.ok
CrcOk(f) == f \notin {"badcrc.bin", "badboth.bin"}

\* prefixInfo.platformID = device.platformId ?  (assets carry no real
\* platform id, "foreign.bin" and "badboth.bin" were built for another
\* platform)
PlatformMatches(f) == f \notin {"asset.txt", "foreign.bin", "badboth.bin"}

\* prefixInfo.depModuleFunction / depModuleIndex
Dependency(f) ==
  CASE f = "boot.bin"    -> [fn |-> "SYSTEM_PART", index |-> 1]
    [] f = "app.bin"     -> [fn |-> "SYSTEM_PART", index |-> 1]
    [] f = "appold.bin"  -> [fn |-> "SYSTEM_PART", index |-> 1]
    [] f = "foreign.bin" -> [fn |-> "SYSTEM_PART", index |-> 1]
    [] f = "ncp.bin"     -> [fn |-> "SYSTEM_PART", index |-> 1]
    [] f = "asset.txt"   -> NoDep
    [] OTHER             -> NoDep

\* prefixInfo.depModuleVersion
DepModuleVersion(f) ==
  CASE f = "app.bin"     -> 3103
    [] f = "appold.bin"  -> 3102
    [] f = "foreign.bin" -> 3103
    [] f = "boot.bin"    -> 3103
    [] f = "ncp.bin"     -> 3103
    [] OTHER             -> 0

\* M depends on D: D is the module M's prefix names as its dependency
DependsOn(m, d) ==
  /\ Dependency(m) # NoDep
  /\ Dependency(m).fn = ModuleFunction(d)
  /\ Dependency(m).index = ModuleIndex(d)


\* module.filename -> path.basename(module.filename)
Basename(f) ==
  CASE f = "build/app.bin" -> "app.bin"
    [] OTHER               -> f

\* fileBuffer.length, prefixInfo.prefixSize, prefixInfo.moduleFlags
FileSize(f) ==
  IF ModuleFunction(f) = "ASSET" THEN 40
  ELSE IF f = "build/app.bin" THEN 48
  ELSE 64
DropModuleInfo(f) == ModuleFunction(f) = "NCP_FIRMWARE"
PrefixSize(f) == IF ModuleFunction(f) = "ASSET" THEN 16 ELSE 24

\* prefixInfo.moduleStartAddy: a hexadecimal string without prefix, kept as
\* its sequence of digit values
ModuleStartAddy(f) ==
  CASE ModuleFunction(f) = "BOOTLOADER"  -> <<8, 0, 0, 0>>
    [] ModuleFunction(f) = "SYSTEM_PART" -> <<8, 0, 6, 0>>
    [] ModuleFunction(f) = "USER_PART"   -> <<8, 0, 11, 4>>
    [] OTHER                             -> <<8, 0, 15, 0>>

\* parseInt(str, 16) on a string of hexadecimal digits
RECURSIVE ParseHex(_)
ParseHex(digits) ==
  IF digits = <<>> THEN 0
  ELSE 16 * ParseHex(SubSeq(digits, 1, Len(digits) - 1)) + digits[Len(digits)]

\* moduleTypeToString of lib/dependency-walker
moduleTypeToString(fn) ==
  CASE fn = "BOOTLOADER"   -> "bootloader"
    [] fn = "SYSTEM_PART"  -> "systemPart"
    [] fn = "USER_PART"    -> "userPart"
    [] fn = "NCP_FIRMWARE" -> "ncpFirmware"
    [] fn = "RADIO_STACK"  -> "radioStack"
    [] fn = "ASSET"        -> "assets"
    [] OTHER               -> "none"

\* ------------------------------------------------------------------------
\* Platform table (PLATFORMS of lib/platform).  Platform 32 relocated its
\* user part (it declares dfu.segments.formerUserPart) and has an encrypted
\* pre-bootloader slot; platform 26 has a coprocessor on an external MCU.
\* ------------------------------------------------------------------------
NoSlot == [type |-> "none", index |-> 0, storage |-> "none", encrypted |-> FALSE]
NoSegment == [address |-> <<>>, size |-> 0]

PlatformIds == {26, 32}

FirmwareModules(platformId) ==
  IF platformId = 32
  THEN << [type |-> "bootloader", index |-> 0, storage |-> "internalFlash", encrypted |-> FALSE],
          [type |-> "bootloader", index |-> 2, storage |-> "internalFlash", encrypted |-> TRUE],
          [type |-> "systemPart", index |-> 1, storage |-> "internalFlash", encrypted |-> FALSE],
          [type |-> "userPart",   index |-> 1, storage |-> "internalFlash", encrypted |-> FALSE] >>
  ELSE << [type |-> "bootloader",  index |-> 0, storage |-> "internalFlash", encrypted |-> FALSE],
          [type |-> "systemPart",  index |-> 1, storage |-> "internalFlash", encrypted |-> FALSE],
          [type |-> "userPart",    index |-> 1, storage |-> "internalFlash", encrypted |-> FALSE],
          [type |-> "ncpFirmware", index |-> 0, storage |-> "externalMcu",   encrypted |-> FALSE],
          [type |-> "radioStack",  index |-> 0, storage |-> "internalFlash", encrypted |-> FALSE] >>

\* a platform table from which platform 26 is missing
PlatformKnownOnly32(platformId) == platformId \in {32}

\* PLATFORMS.find(p => p.id === platformId) finds a platform; the callers
\* hand over the id of a device that platformForId has already resolved
PlatformKnown(platformId) == platformId \in PlatformIds

\* _.get(platform, 'dfu.segments.formerUserPart'); the address is the
\* string '0x' followed by the digits kept here
FormerUserPart(platformId) ==
  IF platformId = 32
  THEN [address |-> <<0, 8, 0, 0, 0, 0, 0, 0>>, size |-> 131072]
  ELSE NoSegment

\* Array.prototype.find: the first element satisfying the test, or
\* undefined (NoSlot)
FindSlot(slots, hits) ==
  IF hits = {} THEN NoSlot
  ELSE slots[CHOOSE i \in hits : \A j \in hits : i <= j]

\* firmwareModules.find(m => m.type === moduleType && m.index === moduleIndex)
FindByTypeAndIndex(slots, moduleType, moduleIndex) ==
  FindSlot(slots, {i \in 1..Len(slots) :
                     slots[i].type = moduleType /\ slots[i].index = moduleIndex})

\* firmwareModules.find(firmwareModule => firmwareModule.type === moduleType)
FindByType(slots, moduleType) ==
  FindSlot(slots, {i \in 1..Len(slots) : slots[i].type = moduleType})


\* ------------------------------------------------------------------------
\* Module Filter: filterModulesToFlash
\* ------------------------------------------------------------------------
\* a filter in which allowAll also lets encrypted slots through
KeepModuleAllowAllOverridesEncryption(f, platformId, allowAll) ==
  LET moduleType     == moduleTypeToString(ModuleFunction(f))
      platformModule == FindByTypeAndIndex(FirmwareModules(platformId), moduleType,
                                           ModuleIndex(f))
      isEncrypted    == platformModule # NoSlot /\ platformModule.encrypted
      isRadioStack   == ModuleFunction(f) = "RADIO_STACK"
      isNcpFirmware  == ModuleFunction(f) = "NCP_FIRMWARE"
  IN (~isEncrypted /\ ~isRadioStack /\ ~isNcpFirmware) \/ allowAll

KeepModule(f, platformId, allowAll) ==
  LET moduleType     == moduleTypeToString(ModuleFunction(f))
      platformModule == FindByTypeAndIndex(FirmwareModules(platformId), moduleType,
                                           ModuleIndex(f))
      isEncrypted    == platformModule # NoSlot /\ platformModule.encrypted
      isRadioStack   == ModuleFunction(f) = "RADIO_STACK"
      isNcpFirmware  == ModuleFunction(f) = "NCP_FIRMWARE"
  IN ~isEncrypted /\ (~isRadioStack \/ allowAll) /\ (~isNcpFirmware \/ allowAll)

filterModulesToFlash(modules, platformId, allowAll) ==
  LET Keep(f) == KeepModule(f, platformId, allowAll)
  IN SelectSeq(modules, Keep)

\* ------------------------------------------------------------------------
\* Module Validator: _validateModulesForPlatform.  Returns "ok" or the
\* error thrown for the first offending module.
\* ------------------------------------------------------------------------
\* a validator that holds assets to the platform check as well
RECURSIVE validateModulesForPlatformNoAssetExemption(_)
validateModulesForPlatformNoAssetExemption(modules) ==
  IF modules = <<>> THEN "ok"
  ELSE LET moduleInfo == Head(modules)
       IN IF ~CrcOk(moduleInfo) THEN "CrcMismatch"
          ELSE IF ~PlatformMatches(moduleInfo) THEN "PlatformMismatch"
          ELSE validateModulesForPlatformNoAssetExemption(Tail(modules))

RECURSIVE validateModulesForPlatform(_)
validateModulesForPlatform(modules) ==
  IF modules = <<>> THEN "ok"
  ELSE LET moduleInfo == Head(modules)
       IN IF ~CrcOk(moduleInfo) THEN "CrcMismatch"
          ELSE IF ~PlatformMatches(moduleInfo) /\ ModuleFunction(moduleInfo) # "ASSET"
               THEN "PlatformMismatch"
          ELSE validateModulesForPlatform(Tail(modules))

\* ------------------------------------------------------------------------
\* Dependency Sorter: sortBinariesByDependency of lib/dependency-walker.
\* Its contract: some ordering of the same modules in which every module
\* comes after the modules of the list it depends on.
\* ------------------------------------------------------------------------
Range(s) == {s[i] : i \in 1..Len(s)}

IsDependencyOrder(s) ==
  \A i, j \in 1..Len(s) : DependsOn(s[i], s[j]) => j < i

Perms(n) == {p \in [1..n -> 1..n] : \A i, j \in 1..n : i # j => p[i] # p[j]}

sortBinariesByDependency(modules) ==
  {s \in {[i \in 1..Len(modules) |-> modules[p[i]]] : p \in Perms(Len(modules))} :
      IsDependencyOrder(s)}

\* ------------------------------------------------------------------------
\* Flash Step Planner: createFlashSteps
\* ------------------------------------------------------------------------
NoAddress == -1

ModuleData(f) ==
  IF DropModuleInfo(f)
  THEN [len |-> FileSize(f) - PrefixSize(f), fill |-> f]
  ELSE [len |-> FileSize(f), fill |-> f]

\* Buffer.alloc(size) without the fill value
FormerUserPartStepUnfilled(formerUserPart) ==
  [name      |-> "invalidate-128k-user-part",
   file      |-> "",
   address   |-> ParseHex(formerUserPart.address),
   data      |-> [len |-> formerUserPart.size, fill |-> "0x00"],
   flashMode |-> "dfu"]

FormerUserPartStep(formerUserPart) ==
  [name      |-> "invalidate-128k-user-part",
   file      |-> "",
   address   |-> ParseHex(formerUserPart.address),
   data      |-> [len |-> formerUserPart.size, fill |-> "0xFF"],
   flashMode |-> "dfu"]

ModuleStep(f, flashMode, address) ==
  [name      |-> Basename(f),
   file      |-> f,
   address   |-> address,
   data      |-> ModuleData(f),
   flashMode |-> flashMode]

\* a threshold that leaves out the minimum version itself
NeedsFormerUserPartStepStrict(f, platformId) ==
  /\ FormerUserPart(platformId) # NoSegment
  /\ DepModuleVersion(f) > DEVICE_OS_MIN_VERSION_TO_FORMAT_128K_USER

NeedsFormerUserPartStep(f, platformId) ==
  /\ FormerUserPart(platformId) # NoSegment
  /\ DepModuleVersion(f) >= DEVICE_OS_MIN_VERSION_TO_FORMAT_128K_USER

\* a plan that starts with the normal bucket whatever the device mode
ConcatBucketsNormalFirst(b, isInDfuMode) ==
  b.normalModules \o b.dfuModules \o b.assetModules

\* a plan that starts with the DFU bucket whatever the device mode
ConcatBucketsDfuFirst(b, isInDfuMode) ==
  b.dfuModules \o b.normalModules \o b.assetModules

\* a plan that puts the asset bucket in front
ConcatBucketsAssetsFirst(b, isInDfuMode) ==
  IF isInDfuMode
  THEN b.assetModules \o b.dfuModules \o b.normalModules
  ELSE b.assetModules \o b.normalModules \o b.dfuModules

\* an assignment in place of the push: the bucket keeps the last step only
PushOverwrites(bucket, flashStep) == << flashStep >>

\* Array.prototype.unshift instead of push
Unshift(bucket, flashStep) == <<flashStep>> \o bucket

\* assetModules.push / normalModules.push / dfuModules.push
Push(bucket, flashStep) == Append(bucket, flashStep)

\* a loop body that pushes the module's own step before the step that
\* invalidates the former user part
PlanModuleLegacyAfter(b, f, platformId) ==
  LET moduleType == moduleTypeToString(ModuleFunction(f))
      storage    == FindByType(FirmwareModules(platformId), moduleType)
  IN IF b.error THEN b
     ELSE IF moduleType = "assets"
     THEN [b EXCEPT !.assetModules = Push(@, ModuleStep(f, "normal", NoAddress))]
     ELSE IF moduleType = "bootloader"
     THEN [b EXCEPT !.normalModules = Push(@, ModuleStep(f, "normal", NoAddress))]
     ELSE IF storage = NoSlot
     THEN [b EXCEPT !.error = TRUE]
     ELSE IF storage.storage = "externalMcu"
     THEN [b EXCEPT !.normalModules = Push(@, ModuleStep(f, "normal", NoAddress))]
     ELSE LET own == ModuleStep(f, "dfu", ParseHex(ModuleStartAddy(f)))
          IN IF moduleType = "userPart" /\ NeedsFormerUserPartStep(f, platformId)
             THEN [b EXCEPT !.dfuModules =
                      Push(Push(@, own), FormerUserPartStep(FormerUserPart(platformId)))]
             ELSE [b EXCEPT !.dfuModules = Push(@, own)]

\* the body of sortedModules.forEach applied to one module; b holds the
\* three buckets and whether an earlier iteration threw
PlanModule(b, f, platformId) ==
  LET moduleType == moduleTypeToString(ModuleFunction(f))
      storage    == FindByType(FirmwareModules(platformId), moduleType)
  IN IF b.error THEN b
     ELSE IF moduleType = "assets"
     THEN [b EXCEPT !.assetModules = Push(@, ModuleStep(f, "normal", NoAddress))]
     ELSE IF moduleType = "bootloader"
     THEN [b EXCEPT !.normalModules = Push(@, ModuleStep(f, "normal", NoAddress))]
     ELSE IF storage = NoSlot
     THEN [b EXCEPT !.error = TRUE]      \* TypeError: storage is undefined
     ELSE IF storage.storage = "externalMcu"
     THEN [b EXCEPT !.normalModules = Push(@, ModuleStep(f, "normal", NoAddress))]
     ELSE LET own == ModuleStep(f, "dfu", ParseHex(ModuleStartAddy(f)))
          IN IF moduleType = "userPart" /\ NeedsFormerUserPartStep(f, platformId)
             THEN [b EXCEPT !.dfuModules =
                      Push(Push(@, FormerUserPartStep(FormerUserPart(platformId))), own)]
             ELSE [b EXCEPT !.dfuModules = Push(@, own)]

RECURSIVE PlanBuckets(_, _, _)
PlanBuckets(b, sortedModules, platformId) ==
  IF sortedModules = <<>> THEN b
  ELSE PlanBuckets(PlanModule(b, Head(sortedModules), platformId),
                   Tail(sortedModules), platformId)

\* the concatenation with the test of the device mode inverted
ConcatBucketsModeInverted(b, isInDfuMode) ==
  IF ~isInDfuMode
  THEN b.dfuModules \o b.normalModules \o b.assetModules
  ELSE b.normalModules \o b.dfuModules \o b.assetModules

EmptyBuckets ==
  [assetModules |-> <<>>, normalModules |-> <<>>, dfuModules |-> <<>>, error |-> FALSE]

ConcatBuckets(b, isInDfuMode) ==
  IF isInDfuMode
  THEN b.dfuModules \o b.normalModules \o b.assetModules
  ELSE b.normalModules \o b.dfuModules \o b.assetModules

\* result of createFlashSteps for one outcome of the sorter
createFlashSteps(sortedModules, isInDfuMode, platformId) ==
  LET b == PlanBuckets(EmptyBuckets, sortedModules, platformId)
  IN [error |-> b.error,
      steps |-> IF b.error THEN <<>> ELSE ConcatBuckets(b, isInDfuMode)]


\* ------------------------------------------------------------------------
\* State
\* ------------------------------------------------------------------------
VARIABLES
  via,             \* entry point: flash --usb / --serial / --local / cloud, or update
  pc,              \* position of the single synchronous pipeline
  opts,            \* policy flags and arguments of the calls made so far
  platformId,      \* device.platformId
  handle,          \* identity of the handle held in `device` (0: none obtained)
  devOpen,         \* device.isOpen of that handle
  devDfu,          \* device.isInDfuMode of that handle
  files,           \* files handed to parseModulesToFlash
  fileModules,     \* parsed user modules
  modulesToFlash,  \* modules handed to createFlashSteps
  sortedModules,   \* what sortBinariesByDependency returned
  flashSteps,      \* the plan
  stepIdx,         \* index of the step flashFiles is working on
  fetched,         \* Device OS version requested from the catalog (0: none)
  log,             \* progress events, device operations and ui writes, in order
  err,             \* the error currently propagating ("none" when there is none)
  fault,           \* the first fatal error raised by the operation
  result           \* "pending", "resolved" or "rejected": the entry point's promise

vars == <<via, pc, opts, platformId, handle, devOpen, devDfu, files, fileModules,
          modulesToFlash, sortedModules, flashSteps, stepIdx, fetched, log, err, fault,
          result>>

Vias == {"usage", "usb", "serial", "local", "cloud", "update"}

NoOpts ==
  [factory |-> FALSE, applicationOnly |-> FALSE, target |-> 0, skipDeviceOSFlash |-> FALSE,
   firmwareVersion |-> 0, allowAll |-> FALSE, resetAfterFlash |-> TRUE,
   isInDfuMode |-> FALSE]

Init ==
  /\ via \in Vias
  /\ pc = "start"
  /\ opts = NoOpts
  /\ platformId = 0
  /\ handle = 0
  /\ devOpen = FALSE
  /\ devDfu = FALSE
  /\ files = <<>>
  /\ fileModules = <<>>
  /\ modulesToFlash = <<>>
  /\ sortedModules = <<>>
  /\ flashSteps = <<>>
  /\ stepIdx = 0
  /\ fetched = 0
  /\ log = <<>>
  /\ err = "none"
  /\ fault = "none"
  /\ result = "pending"

\* one entry of the log
Ev(ev, name, i, ok) ==
  [ev |-> ev, name |-> name, i |-> i, h |-> handle, open |-> devOpen, dfu |-> devDfu,
   ok |-> ok]

\* an error is thrown out of the running function: it lands in the catch of
\* flashOverUsb, or leaves flashLocal / updateDevice / flash directly
CatchPc ==
  CASE via = "usb"    -> "usb_catch"
    [] via = "update" -> "update_ret"
    [] OTHER          -> "flash_ret"

Throw(e) ==
  /\ err' = e
  /\ fault' = IF fault = "none" THEN e ELSE fault
  /\ pc' = CatchPc

pipeVars == <<files, fileModules, modulesToFlash, sortedModules, flashSteps, stepIdx,
              fetched>>
devVars == <<platformId, handle, devOpen, devDfu>>


\* ------------------------------------------------------------------------
\* Device handle operations of cmd/usb-util (reopenInNormalMode,
\* reopenInDfuMode).  A successful reopen hands back a fresh open handle in
\* the requested mode.  A failed reopen throws and leaves the old handle in
\* `device`; whether that handle is still open is not determined.
\* ------------------------------------------------------------------------
ReopenOk(dfu) ==
  /\ handle' = handle + 1
  /\ devOpen' = TRUE
  /\ devDfu' = dfu
  /\ UNCHANGED platformId

ReopenFailed ==
  /\ devOpen' \in BOOLEAN
  /\ UNCHANGED <<platformId, handle, devDfu>>

\* ------------------------------------------------------------------------
\* Mode-Switch Executor: flashFiles, flashDeviceInNormalMode,
\* flashDeviceInDfuMode
\* ------------------------------------------------------------------------
InLoop == pc = "ff_loop" /\ stepIdx <= Len(flashSteps)
Step == flashSteps[stepIdx]

\* the DFU-mode test with its negation lost
NeedsSwitchToDfuInverted(isInDfuMode) == isInDfuMode

\* a loop that advances by two steps
NextStepIdxSkipping(i) == i + 2

\* if (device.isInDfuMode) in flashDeviceInNormalMode
NeedsSwitchToNormal(isInDfuMode) == isInDfuMode
\* if (!device.isInDfuMode) in flashDeviceInDfuMode
NeedsSwitchToDfu(isInDfuMode) == ~isInDfuMode

\* for (const step of flashSteps): the next step, once the previous one
\* returned
NextStepIdx(i) == i + 1

\* flashDeviceInNormalMode, up to the reopen in normal mode
FlashNormalSwitch ==
  /\ InLoop /\ Step.flashMode = "normal"
  /\ IF NeedsSwitchToNormal(devDfu)
     THEN \E ok \in BOOLEAN :
            /\ log' = log \o << Ev("switch-mode", "normal", stepIdx, TRUE),
                                Ev("reopenInNormalMode", "reset", stepIdx, ok) >>
            /\ IF ok
               THEN /\ ReopenOk(FALSE)
                    /\ pc' = "normal_write"
                    /\ UNCHANGED <<err, fault>>
               ELSE /\ ReopenFailed
                    /\ err' = "ModeSwitchFailure"
                    /\ fault' = "ModeSwitchFailure"
                    /\ pc' = "ff_finally"
     ELSE /\ pc' = "normal_write"
          /\ UNCHANGED <<log, err, fault, devVars>>
  /\ UNCHANGED <<via, opts, pipeVars, result>>

\* enterListeningMode without the try/catch around it: its failure ends
\* the step
FlashNormalWriteListeningFatal ==
  /\ pc = "normal_write"
  /\ \E listening, ok \in BOOLEAN :
       IF ~listening
       THEN /\ log' = log \o << Ev("enterListeningMode", "", stepIdx, FALSE) >>
            /\ err' = "ListeningFailure"
            /\ fault' = "ListeningFailure"
            /\ pc' = "ff_finally"
       ELSE /\ log' = log \o << Ev("enterListeningMode", "", stepIdx, listening),
                                Ev("flash-file", Step.name, stepIdx, TRUE),
                                Ev("updateFirmware", Step.name, stepIdx, ok) >>
            /\ IF ok
               THEN /\ pc' = "normal_settle"
                    /\ UNCHANGED <<err, fault>>
               ELSE /\ err' = "WriteFailure"
                    /\ fault' = "WriteFailure"
                    /\ pc' = "ff_finally"
  /\ UNCHANGED <<via, opts, devVars, pipeVars, result>>

\* flashDeviceInNormalMode: enterListeningMode (errors ignored), the
\* flash-file event and device.updateFirmware
FlashNormalWrite ==
  /\ pc = "normal_write"
  /\ \E listening, ok \in BOOLEAN :
       /\ log' = log \o << Ev("enterListeningMode", "", stepIdx, listening),
                           Ev("flash-file", Step.name, stepIdx, TRUE),
                           Ev("updateFirmware", Step.name, stepIdx, ok) >>
       /\ IF ok
          THEN /\ pc' = "normal_settle"
               /\ UNCHANGED <<err, fault>>
          ELSE /\ err' = "WriteFailure"
               /\ fault' = "WriteFailure"
               /\ pc' = "ff_finally"
  /\ UNCHANGED <<via, opts, devVars, pipeVars, result>>

\* the reopen after the settle delay with its result discarded: the loop
\* goes on with the handle that performed the write
FlashNormalSettleKeepsHandle ==
  /\ pc = "normal_settle"
  /\ \E ok \in BOOLEAN :
       /\ log' = log \o << Ev("delay", "", stepIdx, TRUE),
                           Ev("reopenInNormalMode", "noreset", stepIdx, ok) >>
       /\ IF ok
          THEN /\ UNCHANGED devVars
               /\ stepIdx' = NextStepIdx(stepIdx)
               /\ pc' = "ff_loop"
               /\ UNCHANGED <<err, fault>>
          ELSE /\ ReopenFailed
               /\ err' = "ModeSwitchFailure"
               /\ fault' = "ModeSwitchFailure"
               /\ pc' = "ff_finally"
               /\ UNCHANGED stepIdx
  /\ UNCHANGED <<via, opts, files, fileModules, modulesToFlash, sortedModules,
                 flashSteps, fetched, result>>

\* flashDeviceInNormalMode: delay(FLASH_APPLY_DELAY), then reopen without
\* reset and return the new handle to the loop
FlashNormalSettle ==
  /\ pc = "normal_settle"
  /\ \E ok \in BOOLEAN :
       /\ log' = log \o << Ev("delay", "", stepIdx, TRUE),
                           Ev("reopenInNormalMode", "noreset", stepIdx, ok) >>
       /\ IF ok
          THEN /\ ReopenOk(FALSE)
               /\ stepIdx' = NextStepIdx(stepIdx)
               /\ pc' = "ff_loop"
               /\ UNCHANGED <<err, fault>>
          ELSE /\ ReopenFailed
               /\ err' = "ModeSwitchFailure"
               /\ fault' = "ModeSwitchFailure"
               /\ pc' = "ff_finally"
               /\ UNCHANGED stepIdx
  /\ UNCHANGED <<via, opts, files, fileModules, modulesToFlash, sortedModules,
                 flashSteps, fetched, result>>

\* flashDeviceInDfuMode, up to the reopen in DFU mode
FlashDfuSwitch ==
  /\ InLoop /\ Step.flashMode # "normal"
  /\ IF NeedsSwitchToDfu(devDfu)
     THEN \E ok \in BOOLEAN :
            /\ log' = log \o << Ev("switch-mode", "DFU", stepIdx, TRUE),
                                Ev("reopenInDfuMode", "", stepIdx, ok) >>
            /\ IF ok
               THEN /\ ReopenOk(TRUE)
                    /\ pc' = "dfu_write"
                    /\ UNCHANGED <<err, fault>>
               ELSE /\ ReopenFailed
                    /\ err' = "ModeSwitchFailure"
                    /\ fault' = "ModeSwitchFailure"
                    /\ pc' = "ff_finally"
     ELSE /\ pc' = "dfu_write"
          /\ UNCHANGED <<log, err, fault, devVars>>
  /\ UNCHANGED <<via, opts, pipeVars, result>>

\* flashDeviceInDfuMode: the flash-file event and device.writeOverDfu
FlashDfuWrite ==
  /\ pc = "dfu_write"
  /\ \E ok \in BOOLEAN :
       /\ log' = log \o << Ev("flash-file", Step.name, stepIdx, TRUE),
                           Ev("writeOverDfu", Step.name, stepIdx, ok) >>
       /\ IF ok
          THEN /\ stepIdx' = NextStepIdx(stepIdx)
               /\ pc' = "ff_loop"
               /\ UNCHANGED <<err, fault>>
          ELSE /\ err' = "WriteFailure"
               /\ fault' = "WriteFailure"
               /\ pc' = "ff_finally"
               /\ UNCHANGED stepIdx
  /\ UNCHANGED <<via, opts, devVars, files, fileModules, modulesToFlash, sortedModules,
                 flashSteps, fetched, result>>

\* the for loop of flashFiles ran out of steps
FlashLoopEnd ==
  /\ pc = "ff_loop"
  /\ stepIdx > Len(flashSteps)
  /\ pc' = "ff_finally"
  /\ UNCHANGED <<via, opts, devVars, pipeVars, log, err, fault, result>>

\* a reset that ignores the flag
ShouldResetAlways(resetAfterFlash) == TRUE

\* if (resetAfterFlash) inside the finally block
ShouldReset(resetAfterFlash) == resetAfterFlash

\* a cleanup placed after the loop instead of in a finally block: it is
\* skipped when a step threw
CleanupOpsAfterLoop(resetOk) ==
  IF devOpen /\ err = "none"
  THEN (IF ShouldReset(opts.resetAfterFlash)
        THEN << Ev("reset", "", 0, resetOk) >> ELSE << >>)
       \o << Ev("close", "flashFiles", 0, TRUE) >>
  ELSE << >>

\* what the finally block of flashFiles does on the device, given the
\* outcome of device.reset()
CleanupOps(resetOk) ==
  IF devOpen
  THEN (IF ShouldReset(opts.resetAfterFlash)
        THEN << Ev("reset", "", 0, resetOk) >> ELSE << >>)
       \o << Ev("close", "flashFiles", 0, TRUE) >>
  ELSE << >>

\* where flashFiles returns or rethrows to
AfterFlashFiles ==
  IF err # "none" THEN CatchPc
  ELSE IF via = "update" THEN "update_ret" ELSE "flash_ret"

\* a finally block that reports 'finish' after the reset and the close
FlashFinallyFinishLast ==
  /\ pc = "ff_finally"
  /\ \E resetOk \in BOOLEAN :
       log' = log \o CleanupOps(resetOk) \o << Ev("finish", "", 0, TRUE) >>
  /\ devOpen' = FALSE
  /\ pc' = AfterFlashFiles
  /\ UNCHANGED <<via, opts, platformId, handle, devDfu, pipeVars, err, fault, result>>

\* the finally block of flashFiles
FlashFinally ==
  /\ pc = "ff_finally"
  /\ \E resetOk \in BOOLEAN :
       log' = log \o << Ev("finish", "", 0, TRUE) >> \o CleanupOps(resetOk)
  /\ devOpen' = FALSE
  /\ pc' = AfterFlashFiles
  /\ UNCHANGED <<via, opts, platformId, handle, devDfu, pipeVars, err, fault, result>>


\* ------------------------------------------------------------------------
\* Inputs of the commands
\* ------------------------------------------------------------------------
\* what `particle flash --usb <binary>` may be given
UsbBinaries == ModuleFiles \cup {"bundle.zip", "corrupt.bin", "tinker"}

\* binaries a user may pass to `particle flash --local`
LocalFiles == ModuleFiles \cup {"corrupt.bin"}

\* utilities.getFilenameExt(binary) === '.zip'
IsZip(f) == f = "bundle.zip"

\* knownAppsForPlatform(platformName)[binary]
KnownAppPath(binary) == IF binary = "tinker" THEN "app.bin" ELSE ""

\* the module parser throws on a malformed binary
Parses(f) == f # "corrupt.bin"

\* non-empty lists of up to n distinct files
FileLists(S, n) ==
  UNION {{s \in [1..k -> S] : \A i, j \in 1..k : i # j => s[i] # s[j]} : k \in 1..n}

\* device.firmwareVersion (0: unknown) and --target (0: not given), as
\* positions in the semver order
FirmwareVersions == {0, 15, 18, 20}
Targets == {0, 18}

\* api.getDeviceOsVersions(platformID, internalVersion).version
DeviceOsVersionOf(internalVersion) ==
  CASE internalVersion = 3103 -> 20
    [] internalVersion = 3102 -> 19
    [] OTHER                  -> 0

\* what downloadDeviceOsVersionBinaries may deliver
DeviceOsBundles ==
  { <<"sys1.bin", "boot.bin">>, <<"sys1.bin", "ncp.bin">>, <<"badcrc.bin">> }

\* ------------------------------------------------------------------------
\* Base-Firmware Resolution: _pickApplicationBinary, _getDeviceOsBinaries.
\* The result is the Device OS version to download, 0 for "return []".
\* ------------------------------------------------------------------------
UserParts(modules) ==
  LET IsUser(f) == ModuleFunction(f) = "USER_PART" IN SelectSeq(modules, IsUser)

\* a lookup whose failure is answered with the newest known version
pickApplicationBinaryDefaultVersion(modules, lookupOk) ==
  IF UserParts(modules) = <<>>
  THEN [module |-> "", applicationDeviceOsVersion |-> 0]
  ELSE [module |-> Head(UserParts(modules)),
        applicationDeviceOsVersion |->
          IF lookupOk THEN DeviceOsVersionOf(DepModuleVersion(Head(UserParts(modules))))
          ELSE 20]

pickApplicationBinary(modules, lookupOk) ==
  IF UserParts(modules) = <<>>
  THEN [module |-> "", applicationDeviceOsVersion |-> 0]
  ELSE [module |-> Head(UserParts(modules)),
        applicationDeviceOsVersion |->
          IF lookupOk THEN DeviceOsVersionOf(DepModuleVersion(Head(UserParts(modules))))
          ELSE 0]

\* the rules without the test for an application
getDeviceOsBinariesNoApplicationCheck(modules, o, lookupOk) ==
  LET picked == pickApplicationBinary(modules, lookupOk)
      IsDeviceOs(f) == ModuleFunction(f) \in {"SYSTEM_PART", "BOOTLOADER"}
      systemPartBinaries == SelectSeq(modules, IsDeviceOs)
      v == picked.applicationDeviceOsVersion
  IN IF systemPartBinaries # <<>> THEN 0
     ELSE IF o.applicationOnly THEN 0
     ELSE IF o.target # 0 THEN o.target
     ELSE IF o.skipDeviceOSFlash THEN 0
     ELSE IF v # 0 /\ o.firmwareVersion # 0 /\ o.firmwareVersion < v THEN v
     ELSE 0

\* the rules with the target tested first
getDeviceOsBinariesTargetFirst(modules, o, lookupOk) ==
  LET picked == pickApplicationBinary(modules, lookupOk)
      IsDeviceOs(f) == ModuleFunction(f) \in {"SYSTEM_PART", "BOOTLOADER"}
      systemPartBinaries == SelectSeq(modules, IsDeviceOs)
      v == picked.applicationDeviceOsVersion
  IN IF o.target # 0 THEN o.target
     ELSE IF systemPartBinaries # <<>> THEN 0
     ELSE IF picked.module = "" THEN 0
     ELSE IF o.applicationOnly THEN 0
     ELSE IF o.skipDeviceOSFlash THEN 0
     ELSE IF v # 0 /\ o.firmwareVersion # 0 /\ o.firmwareVersion < v THEN v
     ELSE 0

\* the rules with the target tested before applicationOnly
getDeviceOsBinariesTargetBeforeApplicationOnly(modules, o, lookupOk) ==
  LET picked == pickApplicationBinary(modules, lookupOk)
      IsDeviceOs(f) == ModuleFunction(f) \in {"SYSTEM_PART", "BOOTLOADER"}
      systemPartBinaries == SelectSeq(modules, IsDeviceOs)
      v == picked.applicationDeviceOsVersion
  IN IF systemPartBinaries # <<>> THEN 0
     ELSE IF picked.module = "" THEN 0
     ELSE IF o.target # 0 THEN o.target
     ELSE IF o.applicationOnly THEN 0
     ELSE IF o.skipDeviceOSFlash THEN 0
     ELSE IF v # 0 /\ o.firmwareVersion # 0 /\ o.firmwareVersion < v THEN v
     ELSE 0

\* the rules with skipDeviceOSFlash tested before the target
getDeviceOsBinariesSkipBeforeTarget(modules, o, lookupOk) ==
  LET picked == pickApplicationBinary(modules, lookupOk)
      IsDeviceOs(f) == ModuleFunction(f) \in {"SYSTEM_PART", "BOOTLOADER"}
      systemPartBinaries == SelectSeq(modules, IsDeviceOs)
      v == picked.applicationDeviceOsVersion
  IN IF systemPartBinaries # <<>> THEN 0
     ELSE IF picked.module = "" THEN 0
     ELSE IF o.applicationOnly THEN 0
     ELSE IF o.skipDeviceOSFlash THEN 0
     ELSE IF o.target # 0 THEN o.target
     ELSE IF v # 0 /\ o.firmwareVersion # 0 /\ o.firmwareVersion < v THEN v
     ELSE 0

\* the rules with semver.lte in place of semver.lt
getDeviceOsBinariesNotNewer(modules, o, lookupOk) ==
  LET picked == pickApplicationBinary(modules, lookupOk)
      IsDeviceOs(f) == ModuleFunction(f) \in {"SYSTEM_PART", "BOOTLOADER"}
      systemPartBinaries == SelectSeq(modules, IsDeviceOs)
      v == picked.applicationDeviceOsVersion
  IN IF systemPartBinaries # <<>> THEN 0
     ELSE IF picked.module = "" THEN 0
     ELSE IF o.applicationOnly THEN 0
     ELSE IF o.target # 0 THEN o.target
     ELSE IF o.skipDeviceOSFlash THEN 0
     ELSE IF v # 0 /\ o.firmwareVersion # 0 /\ o.firmwareVersion <= v THEN v
     ELSE 0

getDeviceOsBinaries(modules, o, lookupOk) ==
  LET picked == pickApplicationBinary(modules, lookupOk)
      IsDeviceOs(f) == ModuleFunction(f) \in {"SYSTEM_PART", "BOOTLOADER"}
      systemPartBinaries == SelectSeq(modules, IsDeviceOs)
      v == picked.applicationDeviceOsVersion
  IN IF systemPartBinaries # <<>> THEN 0
     ELSE IF picked.module = "" THEN 0
     ELSE IF o.applicationOnly THEN 0
     ELSE IF o.target # 0 THEN o.target
     ELSE IF o.skipDeviceOSFlash THEN 0
     ELSE IF v # 0 /\ o.firmwareVersion # 0 /\ o.firmwareVersion < v THEN v
     ELSE 0


\* ------------------------------------------------------------------------
\* cmd/flash.js: flash
\* ------------------------------------------------------------------------
\* usbUtils.getOneUsbDevice succeeded: an open handle on some platform, in
\* either mode
GotDevice ==
  /\ handle' = 1
  /\ devOpen' = TRUE
  /\ devDfu' \in BOOLEAN
  /\ platformId' \in PlatformIds

\* flash(): the usage check and the dispatch on --usb / --serial / --local
Flash ==
  /\ pc = "start" /\ via # "update"
  /\ IF via = "usage"
     THEN /\ err' = "UsageError"
          /\ fault' = "UsageError"
          /\ pc' = "flash_ret"
     ELSE /\ pc' = CASE via = "usb"    -> "usb_get_device"
                     [] via = "serial" -> "serial_port"
                     [] via = "local"  -> "local_get_device"
                     [] OTHER          -> "cloud"
          /\ UNCHANGED <<err, fault>>
  /\ UNCHANGED <<via, opts, devVars, pipeVars, log, result>>

\* flash(): after the awaited command; 'Flash success!' is written unless
\* the command threw
FlashReturn ==
  /\ pc = "flash_ret"
  /\ IF err = "none"
     THEN /\ log' = Append(log, Ev("ui", "Flash success!", 0, TRUE))
          /\ result' = "resolved"
     ELSE /\ result' = "rejected"
          /\ UNCHANGED log
  /\ pc' = "done"
  /\ UNCHANGED <<via, opts, devVars, pipeVars, err, fault>>

\* flashCloud: delegated to the cloud command, which resolves or rejects
FlashCloud ==
  /\ pc = "cloud"
  /\ \E ok \in BOOLEAN :
       IF ok THEN pc' = "flash_ret" /\ UNCHANGED <<err, fault>>
       ELSE Throw("CloudFlashFailure")
  /\ UNCHANGED <<via, opts, devVars, pipeVars, log, result>>

\* flashYModem -> SerialCommands.flashDevice: pick the serial device, then
\* flashLocal({ files: [deviceId, binary], applicationOnly: true })
FlashYModem ==
  /\ pc = "serial_port"
  /\ \E ok \in BOOLEAN :
       IF ok
       THEN /\ opts' = [opts EXCEPT !.applicationOnly = TRUE]
            /\ pc' = "local_get_device"
            /\ UNCHANGED <<err, fault>>
       ELSE /\ Throw("NoSerialDevice")
            /\ UNCHANGED opts
  /\ UNCHANGED <<via, devVars, pipeVars, log, result>>

\* ------------------------------------------------------------------------
\* cmd/flash.js: flashOverUsb
\* ------------------------------------------------------------------------
\* the zip check and getOneUsbDevice
UsbGetDevice ==
  /\ pc = "usb_get_device"
  /\ \E binary \in UsbBinaries, factory \in BOOLEAN :
       /\ files' = <<binary>>
       /\ opts' = [opts EXCEPT !.factory = factory]
       /\ IF IsZip(binary)
          THEN Throw("ZipBundle") /\ UNCHANGED devVars
          ELSE \E found \in BOOLEAN :
                 IF found
                 THEN GotDevice /\ pc' = "usb_parse" /\ UNCHANGED <<err, fault>>
                 ELSE Throw("NoDevice") /\ UNCHANGED devVars
  /\ UNCHANGED <<via, fileModules, modulesToFlash, sortedModules, flashSteps, stepIdx,
                 fetched, log, result>>

\* the known-app lookup and parseModulesToFlash; validateDFUSupport, which
\* follows it, changes nothing of the state and is left out
UsbParse ==
  /\ pc = "usb_parse"
  /\ LET binary       == files[1]
         knownAppPath == KnownAppPath(binary)
         toParse      == IF knownAppPath # "" THEN <<knownAppPath>> ELSE <<binary>>
     IN /\ files' = toParse
        /\ IF \A i \in 1..Len(toParse) : Parses(toParse[i])
           THEN /\ fileModules' = toParse
                /\ modulesToFlash' = toParse
                /\ pc' = "usb_validate"
                /\ UNCHANGED <<err, fault>>
           ELSE /\ Throw("ParseFailure")
                /\ UNCHANGED <<fileModules, modulesToFlash>>
  /\ UNCHANGED <<via, opts, devVars, sortedModules, flashSteps, stepIdx, fetched, log,
                 result>>

\* this._validateModulesForPlatform
UsbValidate ==
  /\ pc = "usb_validate"
  /\ LET v == validateModulesForPlatform(modulesToFlash)
     IN IF v = "ok"
        THEN pc' = "usb_plan" /\ UNCHANGED <<err, fault>>
        ELSE Throw(v)
  /\ UNCHANGED <<via, opts, devVars, pipeVars, log, result>>

\* resetAfterFlash as flashOverUsb computes it
UsbResetAfterFlash(factory, modules) ==
  ~factory /\ ModuleFunction(modules[1]) = "USER_PART"

\* createFlashSteps on the outcome of the sorter, then the hand-over to
\* flashFiles, which receives resetAfterFlash and not the factory flag
PlanAndStart(resetAfterFlash) ==
  \E s \in sortBinariesByDependency(modulesToFlash) :
    LET plan == createFlashSteps(s, devDfu, platformId)
    IN /\ sortedModules' = s
       /\ IF plan.error
          THEN /\ Throw("PlanFailure")
               /\ UNCHANGED <<flashSteps, stepIdx, opts>>
          ELSE /\ flashSteps' = plan.steps
               /\ stepIdx' = 1
               /\ opts' = [opts EXCEPT !.resetAfterFlash = resetAfterFlash,
                                        !.isInDfuMode = devDfu,
                                        !.factory = FALSE]
               /\ pc' = "ff_loop"
               /\ UNCHANGED <<err, fault>>

UsbPlan ==
  /\ pc = "usb_plan"
  /\ PlanAndStart(UsbResetAfterFlash(opts.factory, modulesToFlash))
  /\ UNCHANGED <<via, devVars, files, fileModules, modulesToFlash, fetched, log, result>>

\* catch (error) { if (device) { await device.close(); } }: `device` is
\* the handle getOneUsbDevice returned
UsbCatch ==
  /\ pc = "usb_catch"
  /\ IF handle # 0
     THEN /\ log' = Append(log, [Ev("close", "flashOverUsb", 0, TRUE) EXCEPT !.h = 1])
          /\ devOpen' = IF handle = 1 THEN FALSE ELSE devOpen
     ELSE UNCHANGED <<log, devOpen>>
  /\ err' = "none"
  /\ pc' = "flash_ret"
  /\ UNCHANGED <<via, opts, platformId, handle, devDfu, pipeVars, fault, result>>


\* ------------------------------------------------------------------------
\* cmd/flash.js: flashLocal
\* ------------------------------------------------------------------------
\* _analyzeFiles and getOneUsbDevice
LocalGetDevice ==
  /\ pc = "local_get_device"
  /\ \E found \in BOOLEAN :
       IF found
       THEN GotDevice /\ pc' = "local_prepare" /\ UNCHANGED <<err, fault>>
       ELSE Throw("NoDevice") /\ UNCHANGED devVars
  /\ UNCHANGED <<via, opts, pipeVars, log, result>>

\* _prepareFilesToFlash and _processBundle: a known app (Device OS flash
\* skipped), a list of binaries, or an error (nothing to flash, the known
\* app is not available, the compilation failed)
LocalPrepare ==
  /\ pc = "local_prepare"
  /\ \/ /\ Throw("PrepareFailure")
        /\ UNCHANGED <<files, opts>>
     \/ /\ via = "local"
        /\ files' = <<KnownAppPath("tinker")>>
        /\ opts' = [opts EXCEPT !.skipDeviceOSFlash = TRUE]
        /\ pc' = "local_parse"
        /\ UNCHANGED <<err, fault>>
     \/ /\ \E fs \in FileLists(LocalFiles, IF via = "serial" THEN 1 ELSE MaxFiles) :
             files' = fs
        /\ opts' = [opts EXCEPT !.skipDeviceOSFlash = FALSE]
        /\ pc' = "local_parse"
        /\ UNCHANGED <<err, fault>>
  /\ UNCHANGED <<via, devVars, fileModules, modulesToFlash, sortedModules, flashSteps,
                 stepIdx, fetched, log, result>>

\* parseModulesToFlash({ files: filesToFlash })
LocalParse ==
  /\ pc = "local_parse"
  /\ IF \A i \in 1..Len(files) : Parses(files[i])
     THEN /\ fileModules' = files
          /\ pc' = "local_validate"
          /\ UNCHANGED <<err, fault>>
     ELSE /\ Throw("ParseFailure")
          /\ UNCHANGED fileModules
  /\ UNCHANGED <<via, opts, devVars, files, modulesToFlash, sortedModules, flashSteps,
                 stepIdx, fetched, log, result>>

\* this._validateModulesForPlatform({ modules: fileModules, ... })
LocalValidate ==
  /\ pc = "local_validate"
  /\ LET v == validateModulesForPlatform(fileModules)
     IN IF v = "ok"
        THEN pc' = "local_device_os" /\ UNCHANGED <<err, fault>>
        ELSE Throw(v)
  /\ UNCHANGED <<via, opts, devVars, pipeVars, log, result>>

\* _getDeviceOsBinaries: the decision, and the download it asks for; the
\* downloaded files are left in `files`
LocalDeviceOs ==
  /\ pc = "local_device_os"
  /\ \E target \in (IF via = "serial" THEN {0} ELSE Targets),
        applicationOnly \in (IF via = "serial" THEN {TRUE} ELSE BOOLEAN),
        firmwareVersion \in FirmwareVersions,
        lookupOk \in BOOLEAN :
       LET o == [opts EXCEPT !.target = target, !.applicationOnly = applicationOnly,
                             !.firmwareVersion = firmwareVersion]
           version == getDeviceOsBinaries(fileModules, o, lookupOk)
       IN /\ opts' = o
          /\ fetched' = version
          /\ IF version = 0
             THEN /\ files' = << >>
                  /\ pc' = "local_filter"
                  /\ UNCHANGED <<err, fault>>
             ELSE \/ /\ Throw("DownloadFailure")
                     /\ UNCHANGED files
                  \/ /\ files' \in DeviceOsBundles
                     /\ pc' = "local_filter"
                     /\ UNCHANGED <<err, fault>>
  /\ UNCHANGED <<via, devVars, fileModules, modulesToFlash, sortedModules, flashSteps,
                 stepIdx, log, result>>

\* the parse of the downloaded files and filterModulesToFlash (allowAll
\* left at its default); the arguments of _getDeviceOsBinaries are not
\* read again after this point
LocalFilter ==
  /\ pc = "local_filter"
  /\ LET deviceOsModules == files
     IN modulesToFlash' = filterModulesToFlash(fileModules \o deviceOsModules,
                                               platformId, FALSE)
  /\ opts' = [opts EXCEPT !.target = 0, !.applicationOnly = FALSE,
                          !.skipDeviceOSFlash = FALSE, !.firmwareVersion = 0]
  /\ fetched' = 0
  /\ pc' = "local_plan"
  /\ UNCHANGED <<via, devVars, files, fileModules, sortedModules, flashSteps, stepIdx,
                 log, err, fault, result>>

\* createFlashSteps and flashFiles({ device, flashSteps, ui })
LocalPlan ==
  /\ pc = "local_plan"
  /\ PlanAndStart(TRUE)
  /\ UNCHANGED <<via, devVars, files, fileModules, modulesToFlash, fetched, log, result>>

\* ------------------------------------------------------------------------
\* cmd/update.js: updateDevice
\* ------------------------------------------------------------------------
\* what --target may be given to `particle update`: nothing (0), a
\* Device OS version, or text that is not a semantic version
InvalidTarget == 0 - 1
UpdateTargets == {0, 18, InvalidTarget}

\* semver.valid(target)
SemverValid(target) == target # InvalidTarget

\* updateDevice that acquires the device before it looks at --target
UpdateGetDeviceChecksTargetLate ==
  /\ pc = "start" /\ via = "update"
  /\ \E target \in UpdateTargets :
       /\ opts' = [opts EXCEPT !.target = target]
       /\ \E found \in BOOLEAN :
            IF found
            THEN /\ GotDevice
                 /\ UNCHANGED <<err, fault>>
                 /\ IF target # 0 /\ ~SemverValid(target)
                    THEN /\ log' = Append(log, Ev("ui", "Invalid version", 0, TRUE))
                         /\ result' = "resolved"
                         /\ pc' = "done"
                    ELSE /\ pc' = "update_download"
                         /\ UNCHANGED <<log, result>>
            ELSE Throw("NoDevice") /\ UNCHANGED <<devVars, log, result>>
  /\ UNCHANGED <<via, pipeVars>>

\* the semver check of --target and getOneUsbDevice
UpdateGetDevice ==
  /\ pc = "start" /\ via = "update"
  /\ \E target \in UpdateTargets :
       /\ opts' = [opts EXCEPT !.target = target]
       /\ IF target # 0 /\ ~SemverValid(target)
          THEN /\ log' = Append(log, Ev("ui", "Invalid version", 0, TRUE))
               /\ result' = "resolved"
               /\ pc' = "done"
               /\ UNCHANGED <<err, fault, devVars>>
          ELSE /\ UNCHANGED <<log, result>>
               /\ \E found \in BOOLEAN :
                    IF found
                    THEN GotDevice /\ pc' = "update_download" /\ UNCHANGED <<err, fault>>
                    ELSE Throw("NoDevice") /\ UNCHANGED devVars
  /\ UNCHANGED <<via, pipeVars>>

\* downloadDeviceOsVersionBinaries, parseModulesToFlash and
\* filterModulesToFlash with allowAll: true
UpdateDownload ==
  /\ pc = "update_download"
  /\ \/ /\ Throw("DownloadFailure")
        /\ UNCHANGED <<modulesToFlash, opts, fetched>>
     \/ \E deviceOsModules \in DeviceOsBundles :
          /\ modulesToFlash' = filterModulesToFlash(deviceOsModules, platformId, TRUE)
          /\ opts' = [opts EXCEPT !.allowAll = TRUE]
          /\ fetched' = IF opts.target # 0 THEN opts.target ELSE 99
          /\ pc' = "update_plan"
          /\ UNCHANGED <<err, fault>>
  /\ UNCHANGED <<via, devVars, files, fileModules, sortedModules, flashSteps, stepIdx,
                 log, result>>

UpdatePlan ==
  /\ pc = "update_plan"
  /\ PlanAndStart(TRUE)
  /\ UNCHANGED <<via, devVars, files, fileModules, modulesToFlash, fetched, log, result>>

\* updateDevice with the error of the pipeline caught and dropped before
\* the success message
UpdateReturnSwallowsError ==
  /\ pc = "update_ret"
  /\ log' = Append(log, Ev("ui", "Update success!", 0, TRUE))
  /\ result' = "resolved"
  /\ pc' = "done"
  /\ UNCHANGED <<via, opts, devVars, pipeVars, err, fault>>

\* this.ui.write('Update success!') when nothing threw
UpdateReturn ==
  /\ pc = "update_ret"
  /\ IF err = "none"
     THEN /\ log' = Append(log, Ev("ui", "Update success!", 0, TRUE))
          /\ result' = "resolved"
     ELSE /\ result' = "rejected"
          /\ UNCHANGED log
  /\ pc' = "done"
  /\ UNCHANGED <<via, opts, devVars, pipeVars, err, fault>>

\* ------------------------------------------------------------------------
Next ==
  \/ Flash
  \/ FlashReturn
  \/ FlashCloud
  \/ FlashYModem
  \/ UsbGetDevice
  \/ UsbParse
  \/ UsbValidate
  \/ UsbPlan
  \/ UsbCatch
  \/ LocalGetDevice
  \/ LocalPrepare
  \/ LocalParse
  \/ LocalValidate
  \/ LocalDeviceOs
  \/ LocalFilter
  \/ LocalPlan
  \/ UpdateGetDevice
  \/ UpdateDownload
  \/ UpdatePlan
  \/ UpdateReturn
  \/ FlashNormalSwitch
  \/ FlashNormalWrite
  \/ FlashNormalSettle
  \/ FlashDfuSwitch
  \/ FlashDfuWrite
  \/ FlashLoopEnd
  \/ FlashFinally

Spec == Init /\ [][Next]_vars


\* ------------------------------------------------------------------------
\* The helper functions on their own: filterModulesToFlash,
\* _validateModulesForPlatform and createFlashSteps applied to an arbitrary
\* module list.  `via` names the function, `fileModules` is the module list
\* handed over, `opts` holds allowAll / isInDfuMode, and every call appends
\* its arguments and what it returned to `log`.
\* ------------------------------------------------------------------------
HelperVias ==
  {"filterModulesToFlash", "_validateModulesForPlatform", "createFlashSteps",
   "_getDeviceOsBinaries"}

\* the modules a function is tried on: one for each combination of the
\* descriptor fields the function reads (the validator reads crc.ok, the
\* platform id and the type; the filter and the planner read neither crc.ok
\* nor the platform id, the resolution reads the type and the required
\* Device OS version)
HelperFiles(fn) ==
  CASE fn = "_validateModulesForPlatform" ->
         {"sys1.bin", "app.bin", "asset.txt", "badcrc.bin", "foreign.bin", "badboth.bin"}
    [] fn = "_getDeviceOsBinaries" ->
         {"boot.bin", "sys1.bin", "app.bin", "appold.bin", "asset.txt"}
    [] fn = "filterModulesToFlash" ->
         {"boot.bin", "preboot.bin", "sys1.bin", "app.bin", "ncp.bin", "radio.bin",
          "asset.txt"}
    [] OTHER ->
         {"boot.bin", "preboot.bin", "sys1.bin", "app.bin", "appold.bin", "ncp.bin",
          "radio.bin", "asset.txt"}

\* lists of up to n distinct modules of S, the empty list included
ModuleLists(S, n) ==
  UNION {{s \in [1..k -> S] : \A i, j \in 1..k : i # j => s[i] # s[j]} : k \in 0..n}

InitHelpers ==
  /\ via \in HelperVias
  /\ pc = "call"
  /\ \E allowAll \in (IF via = "filterModulesToFlash" THEN BOOLEAN ELSE {FALSE}),
        isInDfuMode \in (IF via = "createFlashSteps" THEN BOOLEAN ELSE {FALSE}),
        target \in (IF via = "_getDeviceOsBinaries" THEN Targets ELSE {0}),
        flags \in (IF via = "_getDeviceOsBinaries" THEN BOOLEAN \X BOOLEAN
                   ELSE {<<FALSE, FALSE>>}),
        firmwareVersion \in (IF via = "_getDeviceOsBinaries" THEN FirmwareVersions
                             ELSE {0}) :
       opts = [NoOpts EXCEPT !.allowAll = allowAll, !.isInDfuMode = isInDfuMode,
                             !.target = target, !.skipDeviceOSFlash = flags[1],
                             !.applicationOnly = flags[2],
                             !.firmwareVersion = firmwareVersion]
  /\ platformId \in (IF via = "_getDeviceOsBinaries" THEN {26} ELSE PlatformIds)
  /\ fileModules \in ModuleLists(HelperFiles(via), MaxModules)
  /\ handle = 0
  /\ devOpen = FALSE
  /\ devDfu = FALSE
  /\ files = <<>>
  /\ modulesToFlash = <<>>
  /\ sortedModules = <<>>
  /\ flashSteps = <<>>
  /\ stepIdx = 0
  /\ fetched = 0
  /\ log = <<>>
  /\ err = "none"
  /\ fault = "none"
  /\ result = "pending"

\* filterModulesToFlash({ modules, platformId, allowAll }): the only
\* statement that can throw is the read of platform.firmwareModules inside
\* the loop when no platform was found
CallFilter ==
  /\ via = "filterModulesToFlash"
  /\ pc = "call"
  /\ LET threw == fileModules # <<>> /\ ~PlatformKnown(platformId)
         out   == IF threw THEN <<>>
                  ELSE filterModulesToFlash(fileModules, platformId, opts.allowAll)
     IN /\ modulesToFlash' = out
        /\ err' = IF threw THEN "TypeError" ELSE "none"
        /\ log' = Append(log, [ev |-> "filterModulesToFlash", modules |-> fileModules,
                               out |-> out, threw |-> threw])
  /\ pc' = "returned"
  /\ UNCHANGED <<via, opts, devVars, files, fileModules, sortedModules, flashSteps,
                 stepIdx, fetched, fault, result>>

\* _validateModulesForPlatform({ modules, platformId, platformName })
CallValidate ==
  /\ via = "_validateModulesForPlatform"
  /\ pc = "call"
  /\ LET out == validateModulesForPlatform(fileModules)
     IN /\ err' = IF out = "ok" THEN "none" ELSE out
        /\ log' = Append(log, [ev |-> "_validateModulesForPlatform",
                               modules |-> fileModules, out |-> out])
  /\ pc' = "returned"
  /\ UNCHANGED <<via, opts, devVars, pipeVars, fault, result>>

\* a planner whose buckets outlive the call: they still hold the steps of
\* the call before
CallPlanStaleBuckets ==
  /\ via = "createFlashSteps"
  /\ pc \in {"call", "again"}
  /\ \E s \in (IF pc = "call" THEN sortBinariesByDependency(fileModules)
               ELSE {sortedModules}) :
       LET b == PlanBuckets([EmptyBuckets EXCEPT !.dfuModules = flashSteps], s, platformId)
           steps == IF b.error THEN <<>> ELSE ConcatBuckets(b, opts.isInDfuMode)
       IN /\ sortedModules' = s
          /\ flashSteps' = steps
          /\ err' = IF b.error THEN "TypeError" ELSE "none"
          /\ log' = Append(log, [ev |-> "createFlashSteps", modules |-> fileModules,
                                 error |-> b.error, steps |-> steps])
  /\ pc' = IF pc = "call" THEN "again" ELSE "returned"
  /\ UNCHANGED <<via, opts, devVars, files, fileModules, modulesToFlash, stepIdx,
                 fetched, fault, result>>

\* createFlashSteps({ modules, isInDfuMode, platformId }), called twice on
\* the same arguments.  The sorter is a function of its argument: the
\* second call sorts the same list into the same order.
CallPlan ==
  /\ via = "createFlashSteps"
  /\ pc \in {"call", "again"}
  /\ \E s \in (IF pc = "call" THEN sortBinariesByDependency(fileModules)
               ELSE {sortedModules}) :
       LET plan == createFlashSteps(s, opts.isInDfuMode, platformId)
           threw == plan.error \/ ~PlatformKnown(platformId)
           steps == IF threw THEN <<>> ELSE plan.steps
       IN /\ sortedModules' = s
          /\ flashSteps' = steps
          /\ err' = IF threw THEN "TypeError" ELSE "none"
          /\ log' = Append(log, [ev |-> "createFlashSteps", modules |-> fileModules,
                                 error |-> threw, steps |-> steps])
  /\ pc' = IF pc = "call" THEN "again" ELSE "returned"
  /\ UNCHANGED <<via, opts, devVars, files, fileModules, modulesToFlash, stepIdx,
                 fetched, fault, result>>

\* _getDeviceOsBinaries({ skipDeviceOSFlash, target, modules,
\* currentDeviceOsVersion, platformId, applicationOnly }): the catalog
\* lookup of _pickApplicationBinary succeeds or not, and so does the
\* download the rules ask for, whose rejection nothing catches
CallResolve ==
  /\ via = "_getDeviceOsBinaries"
  /\ pc = "call"
  /\ \E lookupOk, downloadOk \in BOOLEAN :
       LET version == getDeviceOsBinaries(fileModules, opts, lookupOk)
           threw   == version # 0 /\ ~downloadOk
       IN /\ fetched' = version
          /\ err' = IF threw THEN "DownloadFailure" ELSE "none"
          /\ log' = Append(log, [ev |-> "_getDeviceOsBinaries", modules |-> fileModules,
                                 lookupOk |-> lookupOk, downloadOk |-> downloadOk,
                                 version |-> version, threw |-> threw])
  /\ pc' = "returned"
  /\ UNCHANGED <<via, opts, devVars, files, fileModules, modulesToFlash, sortedModules,
                 flashSteps, stepIdx, fault, result>>

NextHelpers ==
  \/ CallFilter
  \/ CallValidate
  \/ CallPlan
  \/ CallResolve

SpecHelpers == InitHelpers /\ [][NextHelpers]_vars


\* ------------------------------------------------------------------------
\* The progress callback of flashFiles: _createFlashProgress.  The state
\* the closure keeps (progress bar value, flashMultiplier, eraseSize, step)
\* is carried in the `bar` field of the log entry of each event it handled.
\* ------------------------------------------------------------------------
NORMAL_MULTIPLIER == 10

StepMultiplier(step) == IF step.flashMode = "normal" THEN NORMAL_MULTIPLIER ELSE 1

\* flashSteps.reduce(...): the total the bar is started with
RECURSIVE ProgressTotal(_)
ProgressTotal(steps) ==
  IF steps = <<>> THEN 0
  ELSE Head(steps).data.len * 2 * StepMultiplier(Head(steps)) + ProgressTotal(Tail(steps))

\* flashSteps.find(step => step.name === payload.filename), as an index
\* (0: undefined)
FindStepByName(steps, filename) ==
  LET hits == {a \in 1..Len(steps) : steps[a].name = filename}
  IN IF hits = {} THEN 0 ELSE CHOOSE a \in hits : \A b \in hits : a <= b

\* the closure's variables after _createFlashProgress returned
ProgressStart(steps, isInteractive) ==
  [value |-> 0, total |-> IF isInteractive THEN ProgressTotal(steps) ELSE 0,
   flashMultiplier |-> 1, eraseSize |-> 0, step |-> 0, stopped |-> FALSE]

\* the callback applied to one payload
progress(bar, payload, steps, isInteractive) ==
  CASE payload.ev = "flash-file" ->
         LET found == FindStepByName(steps, payload.filename)
         IN [bar EXCEPT !.step = found,
                        !.flashMultiplier = StepMultiplier(steps[found]),
                        !.eraseSize = 0]
    [] payload.ev = "erased" ->
         IF ~isInteractive THEN bar
         ELSE IF bar.step # 0 /\ bar.eraseSize + payload.bytes > steps[bar.step].data.len
         THEN [bar EXCEPT !.value = @ + (steps[bar.step].data.len - bar.eraseSize)
                                          * bar.flashMultiplier,
                          !.eraseSize = steps[bar.step].data.len]
         ELSE [bar EXCEPT !.value = @ + payload.bytes * bar.flashMultiplier,
                          !.eraseSize = @ + payload.bytes]
    [] payload.ev = "downloaded" ->
         IF isInteractive
         THEN [bar EXCEPT !.value = @ + payload.bytes * bar.flashMultiplier]
         ELSE bar
    [] payload.ev = "finish" ->
         IF isInteractive THEN [bar EXCEPT !.stopped = TRUE] ELSE bar
    [] OTHER -> bar

\* ui.isInteractive or not
ProgressVias == {"progress-bar", "stdout"}

\* module lists whose plans the callback is tried on; "build/app.bin" is a
\* second, smaller build of the application with the same base name
ProgressModules ==
  { <<"app.bin">>, <<"boot.bin", "app.bin">>, <<"asset.txt", "sys1.bin">>,
    <<"app.bin", "build/app.bin">>, <<"build/app.bin", "app.bin">> }

\* sizes device.writeOverDfu / updateFirmware report as erased, and as
\* written
ChunkSizes == {16, 64}
DownloadSizes == {40, 48, 64}

InitProgress ==
  /\ via \in ProgressVias
  /\ pc = "progress"
  /\ opts = NoOpts
  /\ platformId = 26
  /\ handle = 0
  /\ devOpen = FALSE
  /\ devDfu = FALSE
  /\ files = <<>>
  /\ fileModules = <<>>
  /\ modulesToFlash \in ProgressModules
  /\ sortedModules = modulesToFlash
  /\ flashSteps = createFlashSteps(sortedModules, opts.isInDfuMode, platformId).steps
  /\ stepIdx = 0
  /\ fetched = 0
  /\ log = <<>>
  /\ err = "none"
  /\ fault = "none"
  /\ result = "pending"

IsInteractive == via = "progress-bar"

\* the closure's variables now
Bar ==
  IF log = <<>> THEN ProgressStart(flashSteps, IsInteractive) ELSE log[Len(log)].bar

\* progress(payload) while step i is the current one
Emit(payload, i) ==
  log' = Append(log, [ev |-> payload.ev, filename |-> payload.filename,
                      bytes |-> payload.bytes, i |-> i,
                      bar |-> progress(Bar, payload, flashSteps, IsInteractive)])

\* 'erased' and 'downloaded' events of the step being written, so far
ChunksOfStep ==
  Cardinality({p \in 1..Len(log) : log[p].i = stepIdx /\ log[p].ev \in {"erased", "downloaded"}})

\* bytes the 'downloaded' events of the step being written reported so far
RECURSIVE SumBytes(_)
SumBytes(evs) == IF evs = <<>> THEN 0 ELSE Head(evs).bytes + SumBytes(Tail(evs))

DownloadedOfStep ==
  SumBytes(SelectSeq(log, LAMBDA e : e.i = stepIdx /\ e.ev = "downloaded"))

progressFrame == <<via, opts, devVars, files, fileModules, modulesToFlash, sortedModules,
                   flashSteps, fetched, err, fault, result>>

\* progress({ event: 'switch-mode', mode }) ahead of a step
EmitSwitchMode ==
  /\ pc = "progress"
  /\ stepIdx < Len(flashSteps)
  /\ (log # <<>> => log[Len(log)].ev # "switch-mode")
  /\ Emit([ev |-> "switch-mode", filename |-> "", bytes |-> 0], stepIdx)
  /\ UNCHANGED <<pc, stepIdx>>
  /\ UNCHANGED progressFrame

\* progress({ event: 'flash-file', filename: name }) of the next step
EmitFlashFile ==
  /\ pc = "progress"
  /\ stepIdx < Len(flashSteps)
  /\ stepIdx' = stepIdx + 1
  /\ Emit([ev |-> "flash-file", filename |-> flashSteps[stepIdx + 1].name, bytes |-> 0],
          stepIdx + 1)
  /\ UNCHANGED pc
  /\ UNCHANGED progressFrame

\* the device layer reports erased bytes
EmitErased ==
  /\ pc = "progress"
  /\ stepIdx >= 1
  /\ ChunksOfStep < MaxChunks
  /\ \E bytes \in ChunkSizes : Emit([ev |-> "erased", filename |-> "", bytes |-> bytes], stepIdx)
  /\ UNCHANGED <<pc, stepIdx>>
  /\ UNCHANGED progressFrame

\* the device layer reports written bytes: never more, in sum, than the
\* payload of the step holds
EmitDownloaded ==
  /\ pc = "progress"
  /\ stepIdx >= 1
  /\ ChunksOfStep < MaxChunks
  /\ \E bytes \in DownloadSizes :
       /\ DownloadedOfStep + bytes <= flashSteps[stepIdx].data.len
       /\ Emit([ev |-> "downloaded", filename |-> "", bytes |-> bytes], stepIdx)
  /\ UNCHANGED <<pc, stepIdx>>
  /\ UNCHANGED progressFrame

\* progress({ event: 'finish' }) of the finally block
EmitFinish ==
  /\ pc = "progress"
  /\ Emit([ev |-> "finish", filename |-> "", bytes |-> 0], 0)
  /\ pc' = "finished"
  /\ UNCHANGED stepIdx
  /\ UNCHANGED progressFrame

NextProgress ==
  \/ EmitSwitchMode
  \/ EmitFlashFile
  \/ EmitErased
  \/ EmitDownloaded
  \/ EmitFinish

SpecProgress == InitProgress /\ [][NextProgress]_vars


\* ------------------------------------------------------------------------
\* cmd/serial.js: _issueSerialCommand(device, command, timeout).  The
\* executor of the promise opens the port and arms the fail timer; the open
\* callback, the write callback, the parser's 'data' event and the fail
\* timer then run in any order, and the finally handler runs once the
\* promise has settled.  `pc` holds the position of each callback, `devOpen`
\* is serialPort.isOpen, `result` and `err` are the state of the promise
\* and its reason, `opts` holds the arguments.
\* ------------------------------------------------------------------------
SerialCommands == {"i", "m", "v"}
SerialTimeouts == {0, 2000}

\* const failDelay = timeout || 5000
FailDelay(timeout) == IF timeout # 0 THEN timeout ELSE 5000

IssueIdle ==
  [open |-> "idle", write |-> "idle", timer |-> "idle", parser |-> "idle",
   finally |-> "idle"]

InitIssue ==
  /\ via = "_issueSerialCommand"
  /\ pc = IssueIdle
  /\ opts \in [device : BOOLEAN, command : SerialCommands, timeout : SerialTimeouts]
  /\ platformId = 0
  /\ handle = 0
  /\ devOpen = FALSE
  /\ devDfu = FALSE
  /\ files = <<>>
  /\ fileModules = <<>>
  /\ modulesToFlash = <<>>
  /\ sortedModules = <<>>
  /\ flashSteps = <<>>
  /\ stepIdx = 0
  /\ fetched = 0
  /\ log = <<>>
  /\ err = "none"
  /\ fault = "none"
  /\ result = "pending"

issueFrame == <<via, opts, platformId, handle, devDfu, files, fileModules, modulesToFlash,
                sortedModules, flashSteps, stepIdx, fetched, fault>>

\* resolve(value) / reject(reason): only the first call settles the promise
Settle(state, reason) ==
  IF result = "pending"
  THEN result' = state /\ err' = reason
  ELSE UNCHANGED <<result, err>>

\* the synchronous part: the device check, the new port piped into the
\* parser, the fail timer and serialPort.open
IssueSerialCommand ==
  /\ pc = IssueIdle /\ result = "pending"
  /\ IF ~opts.device
     THEN /\ result' = "rejected"
          /\ err' = "No serial port identified"
          /\ pc' = [pc EXCEPT !.finally = "done"]
          /\ UNCHANGED log
     ELSE /\ pc' = [pc EXCEPT !.open = "opening", !.timer = "armed", !.finally = "waiting"]
          /\ log' = Append(log, [ev |-> "setTimeout", arg |-> FailDelay(opts.timeout)])
          /\ UNCHANGED <<result, err>>
  /\ UNCHANGED devOpen
  /\ UNCHANGED issueFrame

\* the callback of serialPort.open: it rejects on an error and writes the
\* command otherwise
IssueOpenCallback ==
  /\ pc.open = "opening"
  /\ \E openErr \in BOOLEAN :
       IF openErr
       THEN /\ pc' = [pc EXCEPT !.open = "failed"]
            /\ Settle("rejected", "Serial problems, please reconnect the device.")
            /\ log' = Append(log, [ev |-> "open", arg |-> 0])
            /\ UNCHANGED devOpen
       ELSE /\ pc' = [pc EXCEPT !.open = "opened", !.write = "pending"]
            /\ devOpen' = TRUE
            /\ log' = log \o << [ev |-> "open", arg |-> 1],
                                [ev |-> "write", arg |-> 1] >>
            /\ UNCHANGED <<result, err>>
  /\ UNCHANGED issueFrame

\* the callback of serialPort.write: on a write error it rejects with the
\* `err` of the open callback, which is null there
IssueWriteCallback ==
  /\ pc.write = "pending"
  /\ \E werr \in BOOLEAN :
       IF werr
       THEN /\ pc' = [pc EXCEPT !.write = "failed"]
            /\ Settle("rejected", "null")
       ELSE /\ pc' = [pc EXCEPT !.write = "written"]
            /\ UNCHANGED <<result, err>>
  /\ UNCHANGED <<devOpen, log>>
  /\ UNCHANGED issueFrame

\* parser.on('data'): the batch the device sent while the port was open
IssueData ==
  /\ devOpen
  /\ pc.parser = "idle"
  /\ pc' = [pc EXCEPT !.parser = "emitted",
                      !.timer = IF @ = "armed" THEN "cleared" ELSE @]
  /\ Settle("resolved", "none")
  /\ log' = Append(log, [ev |-> "data", arg |-> 1])
  /\ UNCHANGED devOpen
  /\ UNCHANGED issueFrame

\* the fail timer fires
IssueFailTimer ==
  /\ pc.timer = "armed"
  /\ pc' = [pc EXCEPT !.timer = "fired"]
  /\ Settle("rejected", "timeoutError")
  /\ log' = Append(log, [ev |-> "timeout", arg |-> FailDelay(opts.timeout)])
  /\ UNCHANGED devOpen
  /\ UNCHANGED issueFrame

\* .finally(): serialPort.removeAllListeners('open'), and a close if the
\* port is open at that moment
IssueFinally ==
  /\ pc.finally = "waiting"
  /\ result # "pending"
  /\ pc' = [pc EXCEPT !.finally = IF devOpen THEN "closing" ELSE "done"]
  /\ log' = Append(log, [ev |-> "finally", arg |-> IF devOpen THEN 1 ELSE 0])
  /\ UNCHANGED <<devOpen, result, err>>
  /\ UNCHANGED issueFrame

\* serialPort.close(resolve) completed
IssueClosed ==
  /\ pc.finally = "closing"
  /\ pc' = [pc EXCEPT !.finally = "done"]
  /\ devOpen' = FALSE
  /\ log' = Append(log, [ev |-> "close", arg |-> 1])
  /\ UNCHANGED <<result, err>>
  /\ UNCHANGED issueFrame

NextIssue ==
  \/ IssueSerialCommand
  \/ IssueOpenCallback
  \/ IssueWriteCallback
  \/ IssueData
  \/ IssueFailTimer
  \/ IssueFinally
  \/ IssueClosed

SpecIssue == InitIssue /\ [][NextIssue]_vars


\* ------------------------------------------------------------------------
\* cmd/serial.js: inspectDevice and _getModuleInfo.  `fileModules` is what
\* device.getFirmwareModuleInfo() answers, `pc.main` is the position of
\* inspectDevice, `pc.cb[k]` the position of the async callback forEach
\* started for the k-th module, `log` holds the writes to stdout and the
\* device requests in order.
\* ------------------------------------------------------------------------
\* modules a device reports: with and without asset dependencies
InspectModules ==
  { [type |-> "SYSTEM_PART", assetDependencies |-> 0],
    [type |-> "USER_PART", assetDependencies |-> 0],
    [type |-> "USER_PART", assetDependencies |-> 1] }

InitInspect ==
  /\ via = "inspectDevice"
  /\ fileModules \in ModuleLists(InspectModules, MaxModules)
  /\ pc = [main |-> "start", cb |-> [k \in 1..Len(fileModules) |-> "idle"]]
  /\ opts = NoOpts
  /\ platformId = 0
  /\ handle = 0
  /\ devOpen = FALSE
  /\ devDfu = FALSE
  /\ files = <<>>
  /\ modulesToFlash = <<>>
  /\ sortedModules = <<>>
  /\ flashSteps = <<>>
  /\ stepIdx = 0
  /\ fetched = 0
  /\ log = <<>>
  /\ err = "none"
  /\ fault = "none"
  /\ result = "pending"

inspectFrame == <<via, opts, platformId, devDfu, files, fileModules, modulesToFlash,
                  sortedModules, flashSteps, stepIdx, fetched, fault>>

Out(ev, k) == [ev |-> ev, k |-> k, open |-> devOpen]

\* whatSerialPortDidYouMean and getOneUsbDevice, then the Platform line
InspectGetDevice ==
  /\ pc.main = "start"
  /\ \E found \in BOOLEAN :
       IF found
       THEN /\ handle' = 1
            /\ devOpen' = TRUE
            /\ log' = Append(log, Out("Platform", 0))
            /\ pc' = [pc EXCEPT !.main = "module_info"]
            /\ UNCHANGED <<err, result>>
       ELSE /\ err' = "Could not get inspect device"
            /\ result' = "rejected"
            /\ pc' = [pc EXCEPT !.main = "done"]
            /\ UNCHANGED <<handle, devOpen, log>>
  /\ UNCHANGED inspectFrame

\* what the callback of forEach writes for the k-th module before it
\* either ends or reaches await device.getAssetInfo()
RECURSIVE ForEachModule(_, _)
ForEachModule(modules, k) ==
  IF k > Len(modules) THEN << >>
  ELSE << Out("module", k) >>
       \o (IF modules[k].assetDependencies > 0
           THEN << Out("getAssetInfo", k) >>
           ELSE << Out("end", k) >>)
       \o ForEachModule(modules, k + 1)

\* _getModuleInfo: getFirmwareModuleInfo, the forEach over the modules,
\* return Promise.resolve(true)
InspectGetModuleInfo ==
  /\ pc.main = "module_info"
  /\ \E ok \in BOOLEAN :
       IF ok
       THEN /\ log' = log \o (IF Len(fileModules) > 0 THEN << Out("Modules", 0) >> ELSE << >>)
                         \o ForEachModule(fileModules, 1)
            /\ pc' = [main |-> "finally",
                      cb |-> [k \in 1..Len(fileModules) |->
                                IF fileModules[k].assetDependencies > 0
                                THEN "awaiting" ELSE "done"]]
            /\ UNCHANGED err
       ELSE /\ err' = "Could not get inspect device"
            /\ pc' = [pc EXCEPT !.main = "finally"]
            /\ UNCHANGED log
  /\ UNCHANGED <<handle, devOpen, result>>
  /\ UNCHANGED inspectFrame

\* finally { if (device && device.isOpen) await device.close() }: the close
\* is requested
InspectFinally ==
  /\ pc.main = "finally"
  /\ pc' = [pc EXCEPT !.main = "closing"]
  /\ log' = Append(log, Out("close", 0))
  /\ UNCHANGED <<handle, devOpen, err, result>>
  /\ UNCHANGED inspectFrame

\* device.close() completed and inspectDevice returns or rethrows
InspectReturn ==
  /\ pc.main = "closing"
  /\ pc' = [pc EXCEPT !.main = "done"]
  /\ devOpen' = FALSE
  /\ result' = IF err = "none" THEN "resolved" ELSE "rejected"
  /\ log' = Append(log, Out("closed", 0))
  /\ UNCHANGED <<handle, err>>
  /\ UNCHANGED inspectFrame

\* the getAssetInfo request of the k-th callback settles, which it cannot
\* do before the synchronous forEach and the return of _getModuleInfo have
\* run; on a closed handle it rejects, and nothing catches that
InspectAssetInfo ==
  /\ pc.main \in {"closing", "done"}
  /\ \E k \in 1..Len(fileModules) :
       /\ pc.cb[k] = "awaiting"
       /\ \E ok \in BOOLEAN :
            IF ok /\ devOpen
            THEN /\ pc' = [pc EXCEPT !.cb[k] = "done"]
                 /\ log' = log \o << Out("assets", k), Out("end", k) >>
            ELSE /\ pc' = [pc EXCEPT !.cb[k] = "rejected"]
                 /\ UNCHANGED log
  /\ UNCHANGED <<handle, devOpen, err, result>>
  /\ UNCHANGED inspectFrame

NextInspect ==
  \/ InspectGetDevice
  \/ InspectGetModuleInfo
  \/ InspectFinally
  \/ InspectReturn
  \/ InspectAssetInfo

SpecInspect == InitInspect /\ [][NextInspect]_vars


\* ------------------------------------------------------------------------
\* cmd/serial.js: monitorPort({ port, follow }).  `pc.lookup`, `pc.open` and
\* `pc.timer` say whether a whatSerialPortDidYouMean call, a serialPort.open
\* call or a setTimeout of the monitor is outstanding, `pc.interrupt` is
\* "handled" once handleInterrupt ran (cleaningUp), `pc.process` ends with
\* process.exit.  `devOpen` is serialPort.isOpen, `result` the promise
\* monitorPort returned, `handle` counts the ports created by openPort,
\* `stepIdx` the lookups and `fetched` the chunks echoed to stdout, each
\* only up to MaxAttempts.
\* ------------------------------------------------------------------------
MaxAttempts == 3

CountUp(n) == IF n < MaxAttempts THEN n + 1 ELSE n

MonitorPorts == {"", "/dev/ttyACM0"}

InitMonitor ==
  /\ via = "monitorPort"
  /\ opts \in [port : MonitorPorts, follow : BOOLEAN]
  /\ pc = [main |-> "start", lookup |-> "idle", open |-> "idle", timer |-> "idle",
           interrupt |-> "idle", process |-> "running"]
  /\ platformId = 0
  /\ handle = 0
  /\ devOpen = FALSE
  /\ devDfu = FALSE
  /\ files = <<>>
  /\ fileModules = <<>>
  /\ modulesToFlash = <<>>
  /\ sortedModules = <<>>
  /\ flashSteps = <<>>
  /\ stepIdx = 0
  /\ fetched = 0
  /\ log = <<>>
  /\ err = "none"
  /\ fault = "none"
  /\ result = "pending"

monitorFrame == <<via, opts, platformId, devDfu, files, fileModules, modulesToFlash,
                  sortedModules, flashSteps, log, fault>>

Running == pc.process = "running"
cleaningUp == pc.interrupt = "handled"

\* the signal handlers are registered and the first lookup is started
MonitorPort ==
  /\ Running /\ pc.main = "start"
  /\ pc' = [pc EXCEPT !.main = "monitoring", !.lookup = "first"]
  /\ stepIdx' = CountUp(stepIdx)
  /\ UNCHANGED <<handle, devOpen, fetched, err, result>>
  /\ UNCHANGED monitorFrame

\* whatSerialPortDidYouMean settles.  It rejects when no device is found.
\* The first call is followed by .then(handlePortFn) only; a retry by
\* .catch(() => null).then(handlePortFn).  handlePortFn opens the port of a
\* device and, without one, arms the retry timer when following
MonitorLookupDone ==
  /\ Running /\ pc.lookup # "idle"
  /\ \E found \in BOOLEAN :
       IF found
       THEN /\ pc' = [pc EXCEPT !.lookup = "idle", !.open = "opening"]
            /\ handle' = CountUp(handle)
            /\ result' = IF pc.lookup = "first" THEN "resolved" ELSE result
            /\ UNCHANGED err
       ELSE IF pc.lookup = "first"
       THEN /\ pc' = [pc EXCEPT !.lookup = "idle"]
            /\ result' = "rejected"
            /\ err' = "No serial port identified"
            /\ UNCHANGED handle
       ELSE /\ pc' = [pc EXCEPT !.lookup = "idle",
                                !.timer = IF opts.follow THEN "lookup" ELSE @]
            /\ UNCHANGED <<handle, result, err>>
  /\ UNCHANGED <<devOpen, stepIdx, fetched>>
  /\ UNCHANGED monitorFrame

\* the callback of serialPort.open in openPort
MonitorOpenCallback ==
  /\ Running /\ pc.open = "opening"
  /\ \E openErr \in BOOLEAN :
       IF openErr /\ opts.follow
       THEN /\ pc' = [pc EXCEPT !.open = "idle", !.timer = "reconnect"]
            /\ UNCHANGED devOpen
       ELSE IF openErr
       THEN /\ pc' = [pc EXCEPT !.open = "idle"]
            /\ UNCHANGED devOpen
       ELSE /\ pc' = [pc EXCEPT !.open = "idle"]
            /\ devOpen' = TRUE
  /\ UNCHANGED <<handle, stepIdx, fetched, err, result>>
  /\ UNCHANGED monitorFrame

\* the port emits 'readable': what was read is written to stdout
MonitorReadable ==
  /\ Running /\ devOpen
  /\ fetched' = CountUp(fetched)
  /\ UNCHANGED <<pc, handle, devOpen, stepIdx, err, result>>
  /\ UNCHANGED monitorFrame

\* the port emits 'close': handleClose
MonitorClose ==
  /\ Running /\ devOpen
  /\ devOpen' = FALSE
  /\ pc' = [pc EXCEPT !.timer = IF opts.follow /\ ~cleaningUp THEN "reconnect" ELSE @]
  /\ UNCHANGED <<handle, stepIdx, fetched, err, result>>
  /\ UNCHANGED monitorFrame

\* a timer of the monitor fires: the retry of the lookup (skipped when
\* cleaning up) or reconnect's openPort
MonitorTimer ==
  /\ Running /\ pc.timer # "idle"
  /\ IF pc.timer = "lookup"
     THEN IF cleaningUp
          THEN /\ pc' = [pc EXCEPT !.timer = "idle"]
               /\ UNCHANGED <<handle, stepIdx>>
          ELSE /\ pc' = [pc EXCEPT !.timer = "idle", !.lookup = "retry"]
               /\ stepIdx' = CountUp(stepIdx)
               /\ UNCHANGED handle
     ELSE /\ pc' = [pc EXCEPT !.timer = "idle", !.open = "opening"]
          /\ handle' = CountUp(handle)
          /\ UNCHANGED stepIdx
  /\ UNCHANGED <<devOpen, fetched, err, result>>
  /\ UNCHANGED monitorFrame

\* SIGINT, SIGQUIT, SIGBREAK or SIGTERM: handleInterrupt sets cleaningUp,
\* closes an open port and calls process.exit(0)
MonitorInterrupt ==
  /\ Running /\ pc.main = "monitoring"
  /\ ~cleaningUp
  /\ pc' = [pc EXCEPT !.interrupt = "handled", !.process = "exited"]
  /\ devOpen' = FALSE
  /\ UNCHANGED <<handle, stepIdx, fetched, err, result>>
  /\ UNCHANGED monitorFrame

NextMonitor ==
  \/ MonitorPort
  \/ MonitorLookupDone
  \/ MonitorOpenCallback
  \/ MonitorReadable
  \/ MonitorClose
  \/ MonitorTimer
  \/ MonitorInterrupt

\* a settled lookup, a finished open and a due timer are run by the event
\* loop sooner or later; unplugging and signals are up to the environment
SpecMonitor ==
  /\ InitMonitor /\ [][NextMonitor]_vars
  /\ WF_vars(MonitorPort)
  /\ WF_vars(MonitorLookupDone)
  /\ WF_vars(MonitorOpenCallback)
  /\ WF_vars(MonitorTimer)


\* ------------------------------------------------------------------------
\* cmd/serial.js: _serialWifiConfig(device, opts).  `pc.open` and
\* `pc.finally` are the positions of the open callback and of cleanUpFn,
\* `pc.timer` lists the timers startTimeout created with the state of each
\* and the prompt it was armed for, `pc.trigger` lists the prompts the
\* device sent with the state of the answer to each.  `handle` is
\* self._serialTimeout (0 for null, else the number of the timer),
\* `devOpen` is serialPort.isOpen, `result` and `err` the promise.  A trigger
\* function gets cb from lib/serial-trigger and answers with
\* cb(response, startTimeout.bind(...)): the response is written to the
\* port and the second argument is called back once it is written.
\* ------------------------------------------------------------------------
MaxPrompts == 2

InitWifi ==
  /\ via = "_serialWifiConfig"
  /\ opts \in [device : BOOLEAN, network : BOOLEAN]
  /\ pc = [open |-> "idle", finally |-> "idle", timer |-> << >>, trigger |-> << >>]
  /\ platformId = 0
  /\ handle = 0
  /\ devOpen = FALSE
  /\ devDfu = FALSE
  /\ files = <<>>
  /\ fileModules = <<>>
  /\ modulesToFlash = <<>>
  /\ sortedModules = <<>>
  /\ flashSteps = <<>>
  /\ stepIdx = 0
  /\ fetched = 0
  /\ log = <<>>
  /\ err = "none"
  /\ fault = "none"
  /\ result = "pending"

wifiFrame == <<via, opts, platformId, devDfu, files, fileModules, modulesToFlash,
               sortedModules, flashSteps, stepIdx, fetched, fault>>

ArmedTimers(timers) == {i \in 1..Len(timers) : timers[i].state = "armed"}

\* startTimeout(to, message, name): self._serialTimeout = setTimeout(...)
StartTimeout(timers, current, prompt) ==
  [timer |-> Append(timers, [state |-> "armed", prompt |-> prompt]),
   current |-> Len(timers) + 1]

\* resetTimeout(): clearTimeout(self._serialTimeout), then null
ResetTimeout(timers, current) ==
  [timer |-> [i \in 1..Len(timers) |->
                IF i = current /\ timers[i].state = "armed"
                THEN [timers[i] EXCEPT !.state = "cleared"] ELSE timers[i]],
   current |-> 0]

\* the last prompt whose answer was handed to the port
LastAnswered ==
  LET S == {k \in 1..Len(pc.trigger) : pc.trigger[k] \in {"writing", "done"}}
  IN IF S = {} THEN 0 ELSE CHOOSE k \in S : \A j \in S : j <= k

\* the synchronous part: the device check, the triggers, serialPort.open
SerialWifiConfig ==
  /\ pc.open = "idle" /\ result = "pending"
  /\ IF ~opts.device
     THEN /\ result' = "rejected"
          /\ err' = "No serial port available"
          /\ pc' = [pc EXCEPT !.open = "none", !.finally = "none"]
     ELSE /\ pc' = [pc EXCEPT !.open = "opening", !.finally = "waiting"]
          /\ UNCHANGED <<result, err>>
  /\ UNCHANGED <<handle, devOpen, log>>
  /\ UNCHANGED wifiFrame

\* the callback of serialPort.open: reject on an error; otherwise start
\* the triggers, write 'w' and arm the initial timeout
WifiOpenCallback ==
  /\ pc.open = "opening"
  /\ \E openErr \in BOOLEAN :
       IF openErr
       THEN /\ pc' = [pc EXCEPT !.open = "failed"]
            /\ Settle("rejected", "open error")
            /\ UNCHANGED <<handle, devOpen>>
       ELSE LET t == StartTimeout(pc.timer, handle, 0)
            IN /\ pc' = [pc EXCEPT !.open = "opened", !.timer = t.timer]
               /\ handle' = t.current
               /\ devOpen' = TRUE
               /\ UNCHANGED <<result, err>>
  /\ UNCHANGED log
  /\ UNCHANGED wifiFrame

\* the device, having received the answers to its earlier prompts, sends
\* the next prompt and its trigger function runs: resetTimeout(), then the
\* answer is looked up or asked for.  The SSID trigger with opts.network
\* answers without a timeout
WifiPrompt ==
  /\ devOpen
  /\ Len(pc.trigger) < MaxPrompts
  /\ \A k \in 1..Len(pc.trigger) : pc.trigger[k] \in {"writing", "done"}
  /\ LET t == ResetTimeout(pc.timer, handle)
     IN /\ \E ssid \in BOOLEAN :
             pc' = [pc EXCEPT !.timer = t.timer,
                              !.trigger = Append(@, IF ssid /\ opts.network
                                                    THEN "asked-ssid" ELSE "asked")]
        /\ handle' = t.current
  /\ UNCHANGED <<devOpen, log, result, err>>
  /\ UNCHANGED wifiFrame

\* the answer is there and the trigger function calls cb(response, ...):
\* the response goes to the port
WifiAnswer ==
  /\ \E k \in 1..Len(pc.trigger) :
       /\ pc.trigger[k] \in {"asked", "asked-ssid"}
       /\ pc' = [pc EXCEPT !.trigger[k] = IF @ = "asked" THEN "writing" ELSE "done"]
  /\ UNCHANGED <<handle, devOpen, log, result, err>>
  /\ UNCHANGED wifiFrame

\* the response is written and the second argument of cb is called:
\* startTimeout
WifiAnswerWritten ==
  /\ \E k \in 1..Len(pc.trigger) :
       /\ pc.trigger[k] = "writing"
       /\ LET t == StartTimeout(pc.timer, handle, k)
          IN /\ pc' = [pc EXCEPT !.trigger[k] = "done", !.timer = t.timer]
             /\ handle' = t.current
  /\ UNCHANGED <<devOpen, log, result, err>>
  /\ UNCHANGED wifiFrame

\* the device sends 'Spark <3 you!' or 'Particle <3 you!'
WifiSuccess ==
  /\ devOpen
  /\ result = "pending"
  /\ LET t == ResetTimeout(pc.timer, handle)
     IN /\ pc' = [pc EXCEPT !.timer = t.timer]
        /\ handle' = t.current
  /\ Settle("resolved", "none")
  /\ UNCHANGED <<devOpen, log>>
  /\ UNCHANGED wifiFrame

\* a timer fires: reject(new VError({ name }, message))
WifiTimeout ==
  /\ \E i \in ArmedTimers(pc.timer) :
       /\ pc' = [pc EXCEPT !.timer[i].state = "fired"]
       /\ log' = Append(log, [ev |-> "timeout", timer |-> i, prompt |-> pc.timer[i].prompt,
                               answered |-> LastAnswered, rejects |-> result = "pending"])
  /\ Settle("rejected", "TimeoutError")
  /\ UNCHANGED <<handle, devOpen>>
  /\ UNCHANGED wifiFrame

\* serialPort emits 'error'
WifiSerialError ==
  /\ devOpen
  /\ result = "pending"
  /\ Settle("rejected", "serial error")
  /\ UNCHANGED <<pc, handle, devOpen, log>>
  /\ UNCHANGED wifiFrame

\* serialPort emits 'close' while serialClosedEarly is still listening
WifiClosedEarly ==
  /\ devOpen
  /\ pc.finally = "waiting"
  /\ devOpen' = FALSE
  /\ Settle("rejected", "Serial port closed early")
  /\ UNCHANGED <<pc, handle, log>>
  /\ UNCHANGED wifiFrame

\* promise.finally(cleanUpFn): resetTimeout(), removeListener('close'),
\* serialPort.close
WifiCleanUp ==
  /\ pc.finally = "waiting"
  /\ result # "pending"
  /\ LET t == ResetTimeout(pc.timer, handle)
     IN /\ pc' = [pc EXCEPT !.timer = t.timer, !.finally = "closing"]
        /\ handle' = t.current
        /\ log' = Append(log, [ev |-> "cleanUp", armed |-> ArmedTimers(t.timer)])
  /\ UNCHANGED <<devOpen, result, err>>
  /\ UNCHANGED wifiFrame

\* serialPort.close(resolve) completed
WifiClosed ==
  /\ pc.finally = "closing"
  /\ pc' = [pc EXCEPT !.finally = "done"]
  /\ devOpen' = FALSE
  /\ UNCHANGED <<handle, log, result, err>>
  /\ UNCHANGED wifiFrame

NextWifi ==
  \/ SerialWifiConfig
  \/ WifiOpenCallback
  \/ WifiPrompt
  \/ WifiAnswer
  \/ WifiAnswerWritten
  \/ WifiSuccess
  \/ WifiTimeout
  \/ WifiSerialError
  \/ WifiClosedEarly
  \/ WifiCleanUp
  \/ WifiClosed

SpecWifi == InitWifi /\ [][NextWifi]_vars


\* ========================================================================
\* Properties
\* ========================================================================
LogEvs == {log[p].ev : p \in 1..Len(log)}
IsWriteEv(e) == e.ev \in {"updateFirmware", "writeOverDfu"}
IsStepEv(e) == e.i > 0
IsClose(e) == e.ev = "close"
HasFinish == "finish" \in LogEvs
FinishPos == CHOOSE p \in 1..Len(log) : log[p].ev = "finish"
MidFlashFaults == {"ModeSwitchFailure", "WriteFailure"}

\* a fatal device operation of a step failed at log position p
FailedAt(p) ==
  /\ log[p].i > 0
  /\ ~log[p].ok
  /\ log[p].ev \in {"reopenInNormalMode", "reopenInDfuMode", "updateFirmware", "writeOverDfu"}

\* the module fails what the validator checks
Invalid(f) ==
  \/ ~CrcOk(f)
  \/ ~PlatformMatches(f) /\ ModuleFunction(f) # "ASSET"

\* the platform slot of the module (by type and index) is marked encrypted
SlotEncrypted(f, p) ==
  \E k \in 1..Len(FirmwareModules(p)) :
     /\ FirmwareModules(p)[k].type = moduleTypeToString(ModuleFunction(f))
     /\ FirmwareModules(p)[k].index = ModuleIndex(f)
     /\ FirmwareModules(p)[k].encrypted

\* C1: every operation that obtained a device handle has invoked close
\* exactly once when it ends
C1_ClosedExactlyOnce ==
  (pc = "done" /\ handle # 0) => Len(SelectSeq(log, IsClose)) = 1

\* C2: no fatal error is swallowed: a failed operation rejects, and
\* 'Flash success!' is written only after every planned step was written
\* without error
C2_NoFatalErrorSwallowed ==
  pc = "done" =>
    /\ fault # "none" => result = "rejected"
    /\ (\E p \in 1..Len(log) : log[p].name = "Flash success!") =>
         /\ fault = "none"
         /\ \A k \in 1..Len(flashSteps) :
              \E p \in 1..Len(log) : IsWriteEv(log[p]) /\ log[p].i = k /\ log[p].ok

\* C3: if a module handed to the planner fails the CRC check or belongs to
\* another platform (assets excepted), the device sees no mode switch and
\* no write
C3_ValidationBeforeDeviceWrites ==
  (\E k \in 1..Len(modulesToFlash) : Invalid(modulesToFlash[k])) =>
     \A p \in 1..Len(log) :
        log[p].ev \notin {"switch-mode", "updateFirmware", "writeOverDfu"}

\* C4: a module with an encrypted slot is never written, a radio stack or
\* NCP firmware only under allowAll
C4_NoForbiddenModuleWritten ==
  \A p \in 1..Len(log) :
     (IsWriteEv(log[p]) /\ flashSteps[log[p].i].file # "") =>
        LET f == flashSteps[log[p].i].file
        IN /\ ~SlotEncrypted(f, platformId)
           /\ ModuleFunction(f) \in {"RADIO_STACK", "NCP_FIRMWARE"} => opts.allowAll

\* C5: flashFiles writes the steps in plan order, one after the other: the
\* k-th write is the write of step k, every event of a step comes after
\* all events of the steps before it, a normal write is followed by the
\* settle delay and the reopen before anything of a later step happens,
\* and a successful run has written every step exactly once
C5_StepsInOrder ==
  LET w  == SelectSeq(log, IsWriteEv)
      se == SelectSeq(log, IsStepEv)
  IN /\ \A k \in 1..Len(w) :
          /\ w[k].i = k
          /\ k <= Len(flashSteps)
          /\ w[k].name = flashSteps[k].name
          /\ w[k].ev = IF flashSteps[k].flashMode = "normal"
                       THEN "updateFirmware" ELSE "writeOverDfu"
          /\ k < Len(w) => w[k].ok
     /\ \A p, q \in 1..Len(se) : p < q => se[p].i <= se[q].i
     /\ \A p \in 1..Len(se) :
          (se[p].ev = "updateFirmware" /\ \E q \in 1..Len(se) : se[q].i > se[p].i) =>
             /\ p + 2 <= Len(se)
             /\ se[p + 1].ev = "delay" /\ se[p + 1].i = se[p].i
             /\ se[p + 2].ev = "reopenInNormalMode" /\ se[p + 2].i = se[p].i
             /\ se[p + 2].ok
     /\ (HasFinish /\ fault = "none") => Len(w) = Len(flashSteps)

\* a successful run over a plan of three or more steps of both modes
C5_Witness ==
  /\ pc = "done" /\ fault = "none" /\ Len(flashSteps) >= 3
  /\ {"updateFirmware", "writeOverDfu"} \subseteq LogEvs

\* C6: a step starts with a switch-mode event and a reopen in the step's
\* mode exactly when the handle's mode differs from the step's mode; every
\* updateFirmware goes to a handle in normal mode, every writeOverDfu to a
\* handle in DFU mode
C6_SwitchIffModeDiffers ==
  \A p \in 1..Len(log) :
     /\ log[p].ev = "updateFirmware" => ~log[p].dfu
     /\ log[p].ev = "writeOverDfu" => log[p].dfu
     /\ log[p].ev = "switch-mode" =>
          /\ p < Len(log)
          /\ log[p + 1].i = log[p].i
          /\ log[p + 1].ev = IF flashSteps[log[p].i].flashMode = "normal"
                             THEN "reopenInNormalMode" ELSE "reopenInDfuMode"
          /\ (log[p].name = "normal") = (flashSteps[log[p].i].flashMode = "normal")
     /\ (log[p].i > 0 /\ (p = 1 \/ log[p - 1].i # log[p].i)) =>
          ((log[p].ev = "switch-mode")
             <=> (log[p].dfu # (flashSteps[log[p].i].flashMode # "normal")))

\* a finished run that switched to normal mode and back to DFU mode
C6_Witness ==
  /\ pc = "done"
  /\ \E p, q \in 1..Len(log) :
       /\ log[p].ev = "switch-mode" /\ log[p].name = "normal"
       /\ log[q].ev = "switch-mode" /\ log[q].name = "DFU"
       /\ \E r \in 1..Len(log) : r > p /\ r > q /\ IsWriteEv(log[r]) /\ log[r].ok


\* the device operations flashFiles issued after the finish event
AfterFinish ==
  LET IsCleanup(e) == e.ev = "reset" \/ (e.ev = "close" /\ e.name = "flashFiles")
  IN SelectSeq(SubSeq(log, FinishPos + 1, Len(log)), IsCleanup)

\* no event of any step follows a failed mode switch or write
NoStepAfterFailure ==
  \A p \in 1..Len(log) : FailedAt(p) => \A q \in 1..Len(log) : q > p => log[q].i = 0

\* leaving the finally block after a mid-flash failure rethrows that failure
FailureLeavesFlashFiles ==
  (pc = "ff_finally" /\ pc' # "ff_finally" /\ fault \in MidFlashFaults) =>
     (err' = fault /\ pc' = CatchPc)

CleanupKeepsOutcome ==
  (pc = "ff_finally" /\ pc' # "ff_finally") => (err' = err /\ fault' = fault)

ModuleStepIdx == {a \in 1..Len(flashSteps) : flashSteps[a].file # ""}

BucketOf(step) ==
  IF step.file # "" /\ ModuleFunction(step.file) = "ASSET" THEN "asset"
  ELSE IF step.flashMode = "normal" THEN "normal"
  ELSE "dfu"

\* position of a bucket in the returned list
BucketRank(bucket, isInDfuMode) ==
  CASE bucket = "asset" -> 3
    [] bucket = "dfu"   -> IF isInDfuMode THEN 1 ELSE 2
    [] OTHER            -> IF isInDfuMode THEN 2 ELSE 1

\* C9 as stated: every module's step comes after the steps of the planned
\* modules it depends on, whatever their buckets
C9_DependencyOrder_Original ==
  \A a, b \in ModuleStepIdx :
     DependsOn(flashSteps[a].file, flashSteps[b].file) => b < a

\* C9, amended: a module's step comes after the step of a planned module it
\* depends on whenever the dependency lies in the same bucket or in a bucket
\* that the starting device mode puts earlier in the plan
C9_DependencyOrder ==
  \A a, b \in ModuleStepIdx :
     (/\ DependsOn(flashSteps[a].file, flashSteps[b].file)
      /\ BucketRank(BucketOf(flashSteps[b]), opts.isInDfuMode)
           <= BucketRank(BucketOf(flashSteps[a]), opts.isInDfuMode))
     => b < a

\* a plan made in DFU mode in which a normal-mode module follows the DFU
\* module it depends on
C9_Witness ==
  \E a, b \in ModuleStepIdx :
     /\ DependsOn(flashSteps[a].file, flashSteps[b].file)
     /\ BucketOf(flashSteps[a]) = "normal" /\ BucketOf(flashSteps[b]) = "dfu"
     /\ opts.isInDfuMode
     /\ b < a

\* the files of the module steps of one bucket, in plan order
BucketFiles(bucket) ==
  LET InBucket(st) == st.file # "" /\ BucketOf(st) = bucket
      picked == SelectSeq(flashSteps, InBucket)
  IN [k \in 1..Len(picked) |-> picked[k].file]

\* the sorter's output restricted to the modules planned into one bucket
SortedInBucket(bucket) ==
  LET InBucket(f) == \E a \in ModuleStepIdx :
                        flashSteps[a].file = f /\ BucketOf(flashSteps[a]) = bucket
  IN SelectSeq(sortedModules, InBucket)

\* C10: within each bucket the module steps are in the sorter's order, so a
\* dependency in the same bucket comes before the module
C10_BucketKeepsSortedOrder ==
  flashSteps # << >> =>
    /\ \A bucket \in {"normal", "dfu", "asset"} :
          BucketFiles(bucket) = SortedInBucket(bucket)
    /\ \A a, b \in ModuleStepIdx :
          (/\ BucketOf(flashSteps[a]) = BucketOf(flashSteps[b])
           /\ DependsOn(flashSteps[a].file, flashSteps[b].file)) => b < a

\* a plan with a bucket of two modules, one depending on the other
C10_Witness ==
  \E a, b \in ModuleStepIdx :
     /\ BucketOf(flashSteps[a]) = BucketOf(flashSteps[b])
     /\ DependsOn(flashSteps[a].file, flashSteps[b].file)
     /\ b < a

\* ------------------------------------------------------------------------
\* Properties of the helper functions (SpecHelpers)
\* ------------------------------------------------------------------------
CallsOf(fn) == {p \in 1..Len(log) : log[p].ev = fn}

\* the platform slot of the module (by type and index) is on the external MCU
SlotExternal(f, p) ==
  \E k \in 1..Len(FirmwareModules(p)) :
     /\ FirmwareModules(p)[k].type = moduleTypeToString(ModuleFunction(f))
     /\ FirmwareModules(p)[k].index = ModuleIndex(f)
     /\ FirmwareModules(p)[k].storage = "externalMcu"

\* the mode C11 gives a module
ClaimedMode(f, p) ==
  IF ModuleFunction(f) \in {"ASSET", "BOOTLOADER"} \/ SlotExternal(f, p)
  THEN "normal" ELSE "dfu"

\* C11: createFlashSteps gives every module a step whose mode follows from
\* its type and the storage of its slot: assets and bootloaders and modules
\* on an external slot are normal, every other module, one without a slot
\* included, is a DFU (bulk) step
C11_ModeFromTypeAndSlot ==
  \A p \in CallsOf("createFlashSteps") :
     /\ ~log[p].error
     /\ \A f \in Range(log[p].modules) :
           \E a \in 1..Len(log[p].steps) :
              /\ log[p].steps[a].file = f
              /\ log[p].steps[a].flashMode = ClaimedMode(f, platformId)

\* C12: in a plan made with the device in DFU mode every DFU step precedes
\* every step of the normal bucket, otherwise every step of the normal
\* bucket precedes every DFU step
C12_BucketOrderByMode ==
  \A a, b \in 1..Len(flashSteps) :
     (BucketOf(flashSteps[a]) = "dfu" /\ BucketOf(flashSteps[b]) = "normal")
     => IF opts.isInDfuMode THEN a < b ELSE b < a

\* modules [bootloader, userPart] planned in DFU mode: [userPart, bootloader]
C12_Witness ==
  /\ via = "createFlashSteps"
  /\ opts.isInDfuMode
  /\ sortedModules = <<"boot.bin", "app.bin">>
  /\ Len(flashSteps) = 2
  /\ flashSteps[1].file = "app.bin" /\ flashSteps[2].file = "boot.bin"

\* C13: no step of a non-asset module and no invalidation step comes after
\* a step of an asset module
C13_AssetsLast ==
  \A a, b \in 1..Len(flashSteps) :
     (a < b /\ BucketOf(flashSteps[a]) = "asset") => BucketOf(flashSteps[b]) = "asset"

\* a plan of three buckets whose asset was first in the sorted list
C13_Witness ==
  /\ via = "createFlashSteps"
  /\ Len(sortedModules) = 3 /\ ModuleFunction(sortedModules[1]) = "ASSET"
  /\ \E a, b, c \in 1..Len(flashSteps) :
        /\ BucketOf(flashSteps[a]) = "asset"
        /\ BucketOf(flashSteps[b]) = "dfu"
        /\ BucketOf(flashSteps[c]) = "normal"

LegacyIdx == {a \in 1..Len(flashSteps) : flashSteps[a].name = "invalidate-128k-user-part"}

UserPartIdx == {a \in ModuleStepIdx : ModuleFunction(flashSteps[a].file) = "USER_PART"}

\* the platform declares the former user part and the module requires a
\* Device OS of at least 3103
WantsInvalidation(f, p) == p = 32 /\ DepModuleVersion(f) >= 3103

\* C14: a userPart module of the plan has an invalidation step iff the
\* platform declares a former user part and the module's required Device OS
\* version is at least 3103
C14_LegacyStepIff ==
  /\ \A a \in UserPartIdx :
        (a > 1 /\ (a - 1) \in LegacyIdx) <=> WantsInvalidation(flashSteps[a].file, platformId)
  /\ Cardinality(LegacyIdx) =
       Cardinality({a \in UserPartIdx : WantsInvalidation(flashSteps[a].file, platformId)})

\* a plan on the platform with a former user part holding a user part that
\* requires 3103 and one that requires 3102
C14_Witness ==
  /\ via = "createFlashSteps"
  /\ platformId = 32
  /\ \E a, b \in UserPartIdx :
        /\ DepModuleVersion(flashSteps[a].file) = 3103 /\ (a - 1) \in LegacyIdx
        /\ DepModuleVersion(flashSteps[b].file) = 3102 /\ (b - 1) \notin LegacyIdx

\* C15: the step right after an invalidation step is the step of the
\* userPart module it was made for
C15_LegacyStepBeforeItsUserPart ==
  \A a \in LegacyIdx :
     /\ a < Len(flashSteps)
     /\ (a + 1) \in UserPartIdx
     /\ WantsInvalidation(flashSteps[a + 1].file, platformId)

\* a plan made in DFU mode with a DFU module before the invalidation step
\* and a normal-mode module after the user part
C15_Witness ==
  /\ via = "createFlashSteps"
  /\ opts.isInDfuMode
  /\ Len(flashSteps) = 4
  /\ 2 \in LegacyIdx
  /\ BucketOf(flashSteps[4]) = "normal"

\* C16: an invalidation step is a DFU step at the address of the former
\* user part (0x08000000) whose payload has the size of that region
\* (131072) and is all 0xFF
C16_LegacyStepContent ==
  \A a \in LegacyIdx :
     /\ flashSteps[a].flashMode = "dfu"
     /\ platformId = 32
     /\ flashSteps[a].address = 134217728
     /\ flashSteps[a].data = [len |-> 131072, fill |-> "0xFF"]

\* a plan that consists of the invalidation step and the user part
C16_Witness ==
  /\ via = "createFlashSteps"
  /\ Len(flashSteps) = 2
  /\ 1 \in LegacyIdx

\* what a call left alone
HelperFrame == UNCHANGED <<fileModules, opts, platformId, handle, devOpen, devDfu>>

Dropped(f, p, allowAll) ==
  \/ SlotEncrypted(f, p)
  \/ ModuleFunction(f) = "RADIO_STACK" /\ ~allowAll
  \/ ModuleFunction(f) = "NCP_FIRMWARE" /\ ~allowAll

\* the k-th smallest element of a set of numbers
KthOf(S, k) == CHOOSE i \in S : Cardinality({j \in S : j <= i}) = k

\* C18: filterModulesToFlash returns the modules that are not dropped, in
\* input order; a module is dropped iff its slot is encrypted or it is a
\* radio stack or NCP firmware and allowAll is false
C18_FilterKeepsExactlyTheAllowed ==
  \A p \in CallsOf("filterModulesToFlash") :
     LET in   == log[p].modules
         kept == {i \in 1..Len(in) : ~Dropped(in[i], platformId, opts.allowAll)}
     IN /\ Len(log[p].out) = Cardinality(kept)
        /\ \A k \in 1..Len(log[p].out) : log[p].out[k] = in[KthOf(kept, k)]
        /\ \A k \in 1..Len(log[p].out) : ~SlotEncrypted(log[p].out[k], platformId)

\* allowAll is set: the module of an encrypted slot is dropped, the NCP
\* firmware stays
C18_Witness ==
  /\ opts.allowAll
  /\ \E p \in CallsOf("filterModulesToFlash") :
        /\ \E i \in 1..Len(log[p].modules) : SlotEncrypted(log[p].modules[i], platformId)
        /\ \E k \in 1..Len(log[p].out) : ModuleFunction(log[p].out[k]) = "NCP_FIRMWARE"

Offends(f) == ~CrcOk(f) \/ (~PlatformMatches(f) /\ ModuleFunction(f) # "ASSET")

\* C20: the validator fails on the first module in list order with a failed
\* CRC (CrcMismatch) or, its CRC being ok, a foreign platform id while not
\* an asset (PlatformMismatch), and succeeds when there is no such module
C20_ValidatorFirstFailure ==
  \A p \in CallsOf("_validateModulesForPlatform") :
     LET in  == log[p].modules
         bad == {i \in 1..Len(in) : Offends(in[i])}
     IN IF bad = {} THEN log[p].out = "ok"
        ELSE log[p].out = IF CrcOk(in[KthOf(bad, 1)]) THEN "PlatformMismatch"
                          ELSE "CrcMismatch"

\* a list with an asset of a foreign platform id passed
C20_Witness ==
  \E p \in CallsOf("_validateModulesForPlatform") :
     /\ log[p].out = "ok"
     /\ Len(log[p].modules) >= 2
     /\ \E i \in 1..Len(log[p].modules) :
           ModuleFunction(log[p].modules[i]) = "ASSET" /\ ~PlatformMatches(log[p].modules[i])

\* ------------------------------------------------------------------------
\* Properties of the base-firmware resolution (SpecHelpers)
\* ------------------------------------------------------------------------
Resolutions == CallsOf("_getDeviceOsBinaries")

HasType(ms, fn) == \E i \in 1..Len(ms) : ModuleFunction(ms[i]) = fn

\* rule 1: a system part or bootloader is among the modules
Rule1(ms) == HasType(ms, "SYSTEM_PART") \/ HasType(ms, "BOOTLOADER")
\* rule 2: no user part is among the modules
Rule2(ms) == ~HasType(ms, "USER_PART")
\* rules 1 to 3 do not apply
PastRule3(ms) == ~Rule1(ms) /\ ~Rule2(ms) /\ ~opts.applicationOnly

\* the Device OS version the first user part requires, 0 when the catalog
\* lookup failed
Required(ms, lookupOk) ==
  LET first == KthOf({i \in 1..Len(ms) : ModuleFunction(ms[i]) = "USER_PART"}, 1)
  IN IF lookupOk THEN DeviceOsVersionOf(DepModuleVersion(ms[first])) ELSE 0

\* rule 6 for a required version
Rule6(required) ==
  IF required # 0 /\ opts.firmwareVersion # 0 /\ opts.firmwareVersion < required
  THEN required ELSE 0

\* C21: _getDeviceOsBinaries asks for what the six rules give, the first
\* matching rule winning (0: nothing)
C21_SixOrderedRules ==
  \A p \in Resolutions :
     log[p].version =
       IF Rule1(log[p].modules) THEN 0
       ELSE IF Rule2(log[p].modules) THEN 0
       ELSE IF opts.applicationOnly THEN 0
       ELSE IF opts.target # 0 THEN opts.target
       ELSE IF opts.skipDeviceOSFlash THEN 0
       ELSE Rule6(Required(log[p].modules, log[p].lookupOk))

\* rule 6 was reached and asked for the required version
C21_Witness ==
  \E p \in Resolutions :
     /\ PastRule3(log[p].modules)
     /\ opts.target = 0 /\ ~opts.skipDeviceOSFlash
     /\ log[p].version = 20 /\ ~log[p].threw

\* C22: with a system part or bootloader among the modules nothing is
\* fetched, whatever the versions, the target and the flags
C22_DeviceOsModulesPresentFetchNothing ==
  \A p \in Resolutions :
     Rule1(log[p].modules) => (log[p].version = 0 /\ ~log[p].threw)

\* a system part next to an application that requires a newer Device OS
\* than installed, with a target given
C22_Witness ==
  \E p \in Resolutions :
     /\ HasType(log[p].modules, "SYSTEM_PART") /\ HasType(log[p].modules, "USER_PART")
     /\ opts.target # 0
     /\ opts.firmwareVersion = 15
     /\ log[p].lookupOk

\* C23: with an application, no system part or bootloader, and
\* applicationOnly, nothing is fetched even when a target is given
C23_ApplicationOnlyBeforeTarget ==
  \A p \in Resolutions :
     (~Rule1(log[p].modules) /\ ~Rule2(log[p].modules) /\ opts.applicationOnly)
     => (log[p].version = 0 /\ ~log[p].threw)

\* applicationOnly together with a target
C23_Witness ==
  \E p \in Resolutions :
     /\ ~Rule1(log[p].modules) /\ ~Rule2(log[p].modules)
     /\ opts.applicationOnly /\ opts.target # 0

\* C24: when rules 1 to 3 do not apply and a target is given, the target
\* version is what is fetched, whatever is installed and also with the skip
\* flag
C24_TargetAlwaysFetched ==
  \A p \in Resolutions :
     (PastRule3(log[p].modules) /\ opts.target # 0) => log[p].version = opts.target

\* a target older than what is installed, with the skip flag set
C24_Witness ==
  \E p \in Resolutions :
     /\ PastRule3(log[p].modules)
     /\ opts.target # 0 /\ opts.firmwareVersion > opts.target
     /\ opts.skipDeviceOSFlash
     /\ ~log[p].threw

\* C25: with no flag and no target the required version is fetched iff
\* the installed version is strictly older than it
C25_UpgradeOnlyWhenOlder ==
  \A p \in Resolutions :
     (/\ PastRule3(log[p].modules)
      /\ opts.target = 0 /\ ~opts.skipDeviceOSFlash
      /\ log[p].lookupOk)
     => LET required == Required(log[p].modules, TRUE)
        IN /\ required # 0
           /\ log[p].version # 0 <=> (opts.firmwareVersion # 0
                                       /\ opts.firmwareVersion < required)
           /\ log[p].version \in {0, required}

\* required 20, installed 15: version 20 is fetched
C25_Witness ==
  \E p \in Resolutions :
     /\ log[p].modules = <<"app.bin">>
     /\ opts.target = 0 /\ ~opts.skipDeviceOSFlash /\ ~opts.applicationOnly
     /\ opts.firmwareVersion = 15
     /\ log[p].lookupOk /\ log[p].version = 20

\* C26 as stated: after a failed lookup the resolution does not fail and
\* fetches nothing
C26_LookupFailureFetchesNothing_Original ==
  \A p \in Resolutions :
     ~log[p].lookupOk => (~log[p].threw /\ log[p].version = 0)

\* C26, amended: after a failed lookup the resolution fetches nothing and
\* does not fail, unless rules 1 to 3 do not apply and a target is given:
\* then the target version is fetched and only a failed download fails it
C26_LookupFailureFetchesNothing ==
  \A p \in Resolutions :
     ~log[p].lookupOk =>
        IF PastRule3(log[p].modules) /\ opts.target # 0
        THEN log[p].version = opts.target /\ (log[p].threw => ~log[p].downloadOk)
        ELSE log[p].version = 0 /\ ~log[p].threw /\ err = "none"

\* the lookup failed for an application on a device with an older Device
\* OS, no flag, no target
C26_Witness ==
  \E p \in Resolutions :
     /\ ~log[p].lookupOk
     /\ PastRule3(log[p].modules)
     /\ opts.target = 0 /\ ~opts.skipDeviceOSFlash
     /\ opts.firmwareVersion = 15
     /\ log[p].version = 0

\* C27: a failed download fails the resolution only when rule 4 (target
\* given) asked for it
C27_DownloadFailureFatalOnlyForTarget ==
  \A p \in Resolutions :
     log[p].threw => (PastRule3(log[p].modules) /\ opts.target # 0)

\* ------------------------------------------------------------------------
\* Properties of the executor's events (Spec)
\* ------------------------------------------------------------------------
FlashFilesPcs == {"ff_loop", "normal_write", "normal_settle", "dfu_write", "ff_finally"}

ProgressEvs == {"switch-mode", "flash-file", "erased", "downloaded"}

FinishCount == Cardinality({p \in 1..Len(log) : log[p].ev = "finish"})

\* C29: an execution of flashFiles emits 'finish' exactly once, after the
\* events of all executed steps and before the reset and the close, and no
\* other progress event follows it
C29_FinishOnceAndLast ==
  /\ FinishCount = (IF stepIdx >= 1 /\ pc \notin FlashFilesPcs THEN 1 ELSE 0)
  /\ HasFinish =>
       /\ \A p \in 1..Len(log) :
             p > FinishPos => (log[p].i = 0 /\ log[p].ev \notin ProgressEvs)
       /\ \A p \in 1..Len(log) :
             (log[p].ev = "reset" \/ (IsClose(log[p]) /\ log[p].name = "flashFiles"))
             => p > FinishPos

\* two steps were written, then 'finish', then the reset and the close
C29_Witness ==
  /\ HasFinish
  /\ fault = "none"
  /\ Len(flashSteps) >= 2
  /\ FinishPos + 2 <= Len(log)
  /\ log[FinishPos + 1].ev = "reset"
  /\ log[FinishPos + 2].ev = "close"
  /\ \E p \in 1..Len(log) : p < FinishPos /\ log[p].ev = "switch-mode"

\* C30: whether or not enterListeningMode succeeds, the flash-file event
\* and the write of the step follow it, and a flash fails only if a mode
\* switch or a write failed
C30_ListeningFailureIgnored ==
  /\ \A p \in 1..Len(log) :
        log[p].ev = "enterListeningMode" =>
           /\ p + 2 <= Len(log)
           /\ log[p + 1].ev = "flash-file" /\ log[p + 1].i = log[p].i
           /\ log[p + 2].ev = "updateFirmware" /\ log[p + 2].i = log[p].i
  /\ (stepIdx >= 1 /\ fault # "none") => \E p \in 1..Len(log) : FailedAt(p)

\* a flash that resolved although enterListeningMode had failed
C30_Witness ==
  /\ result = "resolved"
  /\ fault = "none"
  /\ \E p \in 1..Len(log) : log[p].ev = "enterListeningMode" /\ ~log[p].ok

\* ------------------------------------------------------------------------
\* Properties of the progress callback (SpecProgress)
\* ------------------------------------------------------------------------
\* the value of the bar before the event at log position p
ValueBefore(p) == IF p = 1 THEN 0 ELSE log[p - 1].bar.value

\* what the 'erased' events at the log positions p..q added to the bar
RECURSIVE EraseCredit(_, _)
EraseCredit(p, q) ==
  IF p > q THEN 0
  ELSE (IF log[p].ev = "erased" THEN log[p].bar.value - ValueBefore(p) ELSE 0)
       + EraseCredit(p + 1, q)

\* the log positions of the events of step k
EventsOfStep(k) == {p \in 1..Len(log) : log[p].i = k /\ log[p].ev # "switch-mode"}

\* C28: while a step is flashed the erase progress credited never exceeds
\* the step's own payload length times its mode multiplier, also when two
\* steps of the plan have the same name
C28_EraseCreditCapped ==
  \A k \in 1..Len(flashSteps) :
     \A p, q \in EventsOfStep(k) :
        (log[p].ev = "flash-file" /\ p <= q) =>
           EraseCredit(p, q) <= flashSteps[k].data.len * StepMultiplier(flashSteps[k])

\* ------------------------------------------------------------------------
\* Settle delay and reopen after a Normal-mode write
\* ------------------------------------------------------------------------
IsDeviceOp(e) ==
  e.ev \in {"reopenInNormalMode", "reopenInDfuMode", "enterListeningMode",
            "updateFirmware", "writeOverDfu", "reset", "close"}

\* the successful Normal-mode write at log position p is followed by the
\* settle delay and then by the reopen without reset of the handle that wrote
SettleThenReopen(p) ==
  \/ p = Len(log) /\ pc = "normal_settle"
  \/ /\ p + 2 <= Len(log)
     /\ log[p + 1].ev = "delay"
     /\ log[p + 2].ev = "reopenInNormalMode"
     /\ log[p + 2].name = "noreset"
     /\ log[p + 2].h = log[p].h

\* no device operation after log position p uses the handle of position h
HandleRetiredAfter(p, h) ==
  \A q \in 1..Len(log) : (q > p /\ IsDeviceOp(log[q])) => log[q].h # log[h].h

UiWrites(text) ==
  Len(SelectSeq(log, LAMBDA e : e.ev = "ui" /\ e.name = text))

\* the base firmware was downloaded, the plan was made and every step of it
\* was written, all without error
UpdateCompleted ==
  /\ fetched # 0
  /\ fault = "none"
  /\ HasFinish
  /\ \A k \in 1..Len(flashSteps) :
        \E p \in 1..Len(log) : IsWriteEv(log[p]) /\ log[p].ok /\ log[p].i = k

\* C32: updateDevice writes 'Update success!' if and only if the download,
\* the planning and every flash step completed without error; on any
\* failure the error propagates to the caller and the message is not
\* written
C32_UpdateSuccessIffCompleted ==
  (via = "update" /\ pc = "done") =>
     /\ (UiWrites("Update success!") = 1) <=> UpdateCompleted
     /\ UiWrites("Update success!") <= 1
     /\ fault # "none" =>
           /\ result = "rejected"
           /\ err = fault
           /\ UiWrites("Update success!") = 0
     /\ UiWrites("Update success!") = 1 =>
           /\ result = "resolved"
           /\ log[Len(log)].name = "Update success!"

\* an update of two or more steps went through and reported success
C32_Witness ==
  /\ via = "update" /\ pc = "done"
  /\ UiWrites("Update success!") = 1
  /\ Len(flashSteps) >= 2
  /\ UpdateCompleted

\* ------------------------------------------------------------------------
\* updateDevice with an invalid --target
\* ------------------------------------------------------------------------
\* C38: updateDevice called with a target that is not a valid semantic
\* version reports 'Invalid version' and returns without acquiring or
\* opening a device, downloading binaries or writing anything to a device
C38_InvalidTargetTouchesNothing ==
  /\ (via = "update" /\ pc # "start" /\ opts.target = InvalidTarget) =>
        /\ pc = "done"
        /\ result = "resolved"
        /\ log = << [ev |-> "ui", name |-> "Invalid version", i |-> 0, h |-> 0,
                     open |-> FALSE, dfu |-> FALSE, ok |-> TRUE] >>
        /\ handle = 0 /\ ~devOpen
        /\ fetched = 0
        /\ modulesToFlash = << >> /\ flashSteps = << >>
        /\ err = "none" /\ fault = "none"
  /\ (via = "update" /\ opts.target # InvalidTarget) => UiWrites("Invalid version") = 0

\* updateDevice returned after it was given an invalid target
C38_Witness ==
  /\ via = "update" /\ pc = "done" /\ opts.target = InvalidTarget
  /\ UiWrites("Invalid version") = 1

\* ------------------------------------------------------------------------
\* Mode switches of a whole flash
\* ------------------------------------------------------------------------
SwitchPositions(mode) ==
  {p \in 1..Len(log) : log[p].ev = "switch-mode" /\ log[p].name = mode}

HasDfuStep == \E k \in 1..Len(flashSteps) : flashSteps[k].flashMode = "dfu"

\* every step of the plan up to the k-th was written successfully
WrittenUpTo(k) ==
  \A j \in 1..k : \E p \in 1..Len(log) : IsWriteEv(log[p]) /\ log[p].ok /\ log[p].i = j

\* C35: when flashFiles runs the plan createFlashSteps made for the mode
\* the device had at planning time and no device operation fails, at most
\* two mode switches occur, and if the device started in DFU mode and the
\* plan has a DFU step, every DFU step is written before the first switch
\* to Normal mode
C35_AtMostTwoSwitches ==
  fault = "none" =>
     /\ Cardinality(SwitchPositions("normal") \cup SwitchPositions("DFU")) <= 2
     /\ (opts.isInDfuMode /\ HasDfuStep) =>
           /\ \A q \in SwitchPositions("normal") :
                 \A k \in 1..Len(flashSteps) :
                    flashSteps[k].flashMode = "dfu" =>
                       \E p \in 1..Len(log) :
                          p < q /\ log[p].ev = "writeOverDfu" /\ log[p].i = k /\ log[p].ok
           /\ SwitchPositions("DFU") = {}
     /\ (HasFinish => WrittenUpTo(Len(flashSteps)))

\* a device that started in DFU mode got its DFU steps, was switched to
\* Normal mode once and got a Normal-mode step
C35_Witness ==
  /\ pc = "done" /\ fault = "none"
  /\ opts.isInDfuMode /\ HasDfuStep
  /\ Cardinality(SwitchPositions("normal")) = 1
  /\ \E p \in 1..Len(log) : log[p].ev = "updateFirmware" /\ log[p].ok

\* a device that started in Normal mode was switched twice
C35_WitnessTwoSwitches ==
  /\ pc = "done" /\ fault = "none" /\ ~opts.isInDfuMode
  /\ Cardinality(SwitchPositions("normal") \cup SwitchPositions("DFU")) = 2

\* ------------------------------------------------------------------------
\* The plan holds every module once
\* ------------------------------------------------------------------------
StepsOfFile(f) == {a \in ModuleStepIdx : flashSteps[a].file = f}

\* C36: createFlashSteps neither drops nor duplicates modules: the plan it
\* returns holds exactly one step per input module and exactly one
\* invalidation step per qualifying userPart module, so its length is the
\* number of modules plus the number of invalidation steps
C36_PlanHoldsEveryModuleOnce ==
  (via = "createFlashSteps" /\ pc \in {"again", "returned"} /\ err = "none") =>
     /\ \A k \in 1..Len(fileModules) : Cardinality(StepsOfFile(fileModules[k])) = 1
     /\ \A a \in ModuleStepIdx : flashSteps[a].file \in Range(fileModules)
     /\ Cardinality(LegacyIdx) =
          Cardinality({k \in 1..Len(fileModules) :
                         /\ ModuleFunction(fileModules[k]) = "USER_PART"
                         /\ WantsInvalidation(fileModules[k], platformId)})
     /\ Len(flashSteps) = Len(fileModules) + Cardinality(LegacyIdx)
     /\ ModuleStepIdx \cup LegacyIdx = 1..Len(flashSteps)

\* a plan of three modules of three buckets with one invalidation step
C36_Witness ==
  /\ via = "createFlashSteps" /\ pc = "returned" /\ err = "none"
  /\ Len(fileModules) = 3
  /\ Cardinality(LegacyIdx) = 1
  /\ Len(flashSteps) = 4
  /\ {flashSteps[a].flashMode : a \in 1..Len(flashSteps)} = {"normal", "dfu"}

\* ------------------------------------------------------------------------
\* The bar's cumulative value
\* ------------------------------------------------------------------------
\* C34: the cumulative value added to the progress bar never decreases and
\* never exceeds the total computed at start, when each step receives
\* 'erased' events of arbitrary sizes and 'downloaded' events that sum to
\* no more than its payload length
C34_ValueMonotoneAndBounded ==
  IsInteractive =>
     /\ \A p \in 1..Len(log) : log[p].bar.value >= ValueBefore(p)
     /\ Bar.value <= Bar.total

\* ------------------------------------------------------------------------
\* _issueSerialCommand and its port
\* ------------------------------------------------------------------------
\* the promise _issueSerialCommand returned has settled and no callback of
\* the port is outstanding
IssueQuiet ==
  /\ pc.finally = "done"
  /\ pc.open # "opening"
  /\ pc.write # "pending"

\* C33: once the promise of _issueSerialCommand has settled (response,
\* timeout, open error or write error) the port it opened is closed or
\* gets closed, for every interleaving of the open callback, the data
\* event and the fail timer, an open that completes after the timeout
\* included
C33_PortClosedAfterCommand ==
  IssueQuiet => ~devOpen

\* ------------------------------------------------------------------------
\* inspectDevice and the output of its modules
\* ------------------------------------------------------------------------
\* what inspectDevice is to have written for the modules, in order
RECURSIVE WholeOutput(_, _)
WholeOutput(modules, k) ==
  IF k > Len(modules) THEN << >>
  ELSE << "module" >>
       \o (IF modules[k].assetDependencies > 0 THEN << "assets" >> ELSE << >>)
       \o << "end" >>
       \o WholeOutput(modules, k + 1)

IsModuleOutput(e) == e.ev \in {"module", "assets", "end"}

WrittenOutput ==
  LET w == SelectSeq(log, IsModuleOutput)
  IN [p \in 1..Len(w) |-> w[p].ev]

WrittenOrder ==
  LET w == SelectSeq(log, IsModuleOutput)
  IN \A p, q \in 1..Len(w) : p < q => w[p].k <= w[q].k

\* C37: inspectDevice finishes its device work before closing: every
\* getAssetInfo request has completed and every module's output, its
\* asset-dependency section included, has been written contiguously and in
\* module order before the handle is closed and before inspectDevice
\* returns
C37_InspectFinishesBeforeClose ==
  (pc.main = "done" /\ err = "none") =>
     /\ \A k \in 1..Len(fileModules) : pc.cb[k] = "done"
     /\ WrittenOutput = WholeOutput(fileModules, 1)
     /\ WrittenOrder

\* ------------------------------------------------------------------------
\* monitorPort keeps trying while following
\* ------------------------------------------------------------------------
\* a lookup or an open attempt is under way or scheduled
AttemptScheduled ==
  pc.lookup # "idle" \/ pc.open # "idle" \/ pc.timer # "idle"

\* the monitor holds no port and nothing is under way: no device was
\* found, the open failed, or the port closed
MonitorLostPort ==
  /\ pc.main = "monitoring"
  /\ ~devOpen
  /\ pc.lookup = "idle" /\ pc.open = "idle"

\* a lookup or an open attempt starts in this step
NewAttempt ==
  \/ pc.lookup = "idle" /\ pc'.lookup # "idle"
  \/ pc.open = "idle" /\ pc'.open # "idle"

\* C39: with follow enabled, whenever no device is found, the port fails
\* to open or the port closes, and no interrupt has been handled, another
\* lookup or open attempt is eventually scheduled; with follow disabled no
\* open attempt is made after a close or an open error; once an interrupt
\* has been handled no new attempt is made
C39_FollowKeepsTrying ==
  /\ ((opts.follow /\ MonitorLostPort /\ ~cleaningUp) ~> (AttemptScheduled \/ cleaningUp))
  /\ [][(~opts.follow /\ pc.open = "idle" /\ pc'.open # "idle") => pc.lookup = "first"]_vars
  /\ [][cleaningUp => ~NewAttempt]_vars

====
